---- MODULE Spec2Model ----
(***************************************************************************)
(* A model of the rule based Cypher planner of                             *)
(* src/src/query/plan/rule_based_planner.cpp.                              *)
(*                                                                         *)
(* The logical operators form a chain (every operator modelled here has    *)
(* one input), so a plan is the sequence of its operators, bottom-up:      *)
(* plan[1] is the leaf, plan[Len(plan)] the root.  "new Op(input_op, ..)"  *)
(* is Append(input_op, op).                                                *)
(*                                                                         *)
(* After the planner come the existence constraints of                     *)
(* src/src/storage/single_node/constraints/existence_constraints.cpp, the  *)
(* user and role store of src/src/auth/auth.cpp and the coordinator state  *)
(* of src/src/coordination/coordinator_state.cpp, each with a              *)
(* specification of its own.                                               *)
(***************************************************************************)
EXTENDS Integers, Sequences, FiniteSets, TLC

\* Bounds of the model.
MaxSymbols == 5
MaxClauses == 3
MaxAtoms == 5
MaxPatterns == 2
MaxNamed == 2
MaxFilters == 2

VARIABLES
    plan,           \* the operator tail built so far (input_op / last_op)
    bound_symbols,  \* std::unordered_set<Symbol> bound_symbols
    is_write,       \* the write marker threaded by the query assembler
    status,         \* "planning", "done" (RETURN planned) or "fatal" (LOG(FATAL))
    positions,      \* number of symbols the symbol table has handed out
    clauses,        \* number of clauses planned so far
    scope,          \* the variables in scope after the clauses planned so far
    last,           \* the last planner call: its inputs, pre-state and result
    constraints_,   \* std::vector<ExistenceRule> ExistenceConstraints::constraints_
    storage_,       \* kvstore::KVStore Auth::storage_
    data_,          \* the std::variant CoordinatorState::data_
    returned        \* the last call of one of the three: arguments and result

planner_vars ==
    <<plan, bound_symbols, is_write, status, positions, clauses, scope, last>>

vars ==
    <<plan, bound_symbols, is_write, status, positions, clauses, scope, last,
      constraints_, storage_, data_, returned>>

----------------------------------------------------------------------------
(* Symbols.  A symbol is identified by the position the symbol table gave  *)
(* it; user_declared tells a variable written by the user from an          *)
(* anonymous one.  Names are strings in the source; they are only compared *)
(* (ExpandUserSymbols sorts by name), so a name is modelled by its rank in *)
(* the lexicographic order.  The rank is deliberately not monotone in the  *)
(* position: declaration order and name order differ.                      *)

Symbol(p, u) == [position |-> p, user_declared |-> u]

name(symbol) == (3 * symbol.position) % 7

user_declared(symbol) == symbol.user_declared

NoSymbol == Symbol(0, FALSE)

Range(s) == {s[i] : i \in DOMAIN s}

SetMax(S) == IF S = {} THEN 0 ELSE CHOOSE x \in S : \A y \in S : y <= x

----------------------------------------------------------------------------
(* Logical operators.  Every operator is a record of the same shape:       *)
(*   kind   the operator class                                             *)
(*   intro  the symbols the operator introduces (writes to the frame)      *)
(*   refs   the symbols its expressions and input symbols reference        *)
(*   flag   its boolean attribute (advance_command, node_existing,         *)
(*          UPDATE mode, detach)                                           *)
(*   syms   its symbol list, in order (path elements, remembered symbols,  *)
(*          output symbols)                                                *)
(*   exprs  its expression list, in order                                  *)

(*   aggregations  the aggregation elements (Aggregate only)               *)

Op(kind, intro, refs, flag, syms, exprs) ==
    [kind |-> kind, intro |-> intro, refs |-> refs, flag |-> flag,
     syms |-> syms, exprs |-> exprs, aggregations |-> <<>>]

\* Operator constructors (query/plan/operator.hpp is not part of the sources;
\* the fields are those the planner passes to the constructors).
CreateNodeOp(node) ==
    Op("CreateNode", {node.symbol}, {}, FALSE, <<node.symbol>>, <<>>)

CreateExpandOp(node, edge, input_symbol, node_existing) ==
    Op("CreateExpand",
       {edge.symbol} \cup (IF node_existing THEN {} ELSE {node.symbol}),
       {input_symbol} \cup (IF node_existing THEN {node.symbol} ELSE {}),
       node_existing, <<node.symbol, edge.symbol, input_symbol>>, <<>>)

ConstructNamedPathOp(path_symbol, path_elements) ==
    Op("ConstructNamedPath", {path_symbol}, Range(path_elements), FALSE,
       <<path_symbol>> \o path_elements, <<>>)

----------------------------------------------------------------------------
(* Patterns.  A pattern is [identifier, atoms]; atoms alternate node, edge, *)
(* node, ...; an atom is [type, symbol] where symbol is                    *)
(* the symbol the symbol table gives the atom's identifier.               *)

NodeAtom(symbol) == [type |-> "node", symbol |-> symbol]
EdgeAtom(symbol) == [type |-> "edge", symbol |-> symbol]

\* The value threaded through GenCreateForPattern: the operator tail, the
\* bound symbols (captured by reference in the lambdas) and whether
\* LOG(FATAL) has aborted the process.
\* `null` tells the nullptr HandleWriteClause returns for a clause it does not
\* handle.
Planned(last_op, bound, fatal) ==
    [last_op |-> last_op, bound_symbols |-> bound, fatal |-> fatal,
     null |-> FALSE]

NotPlanned(bound) ==
    [last_op |-> <<>>, bound_symbols |-> bound, fatal |-> FALSE, null |-> TRUE]

\* Mutant of CreateBase: marks the node bound without creating it.
CreateBaseNoNode(input_op, bound, node) ==
    Planned(input_op, bound \cup {node.symbol}, FALSE)

\* Mutant of CreateBase: creates the node even when it is already bound.
CreateBaseAlways(input_op, bound, node) ==
    Planned(Append(input_op, CreateNodeOp(node)), bound \cup {node.symbol},
            FALSE)

\* The lambda `base` of GenCreateForPattern.
CreateBase(input_op, bound, node) ==
    IF node.symbol \notin bound
    THEN Planned(Append(input_op, CreateNodeOp(node)),
                 bound \cup {node.symbol}, FALSE)
    ELSE Planned(input_op, bound, FALSE)

\* Mutant of CreateCollect: the redeclared edge is not detected.
CreateCollectNoFatal(acc, prev_node, edge, node) ==
    IF acc.fatal THEN acc
    ELSE Planned(Append(acc.last_op,
                        CreateExpandOp(node, edge, prev_node.symbol,
                                       node.symbol \in acc.bound_symbols)),
                 acc.bound_symbols \cup {node.symbol, edge.symbol}, FALSE)

\* Mutant of CreateCollect: node_existing is never set.
CreateCollectNeverExisting(acc, prev_node, edge, node) ==
    IF acc.fatal THEN acc
    ELSE LET bound1 == acc.bound_symbols \cup {node.symbol}
         IN IF edge.symbol \in bound1
            THEN Planned(acc.last_op, bound1, TRUE)
            ELSE Planned(Append(acc.last_op,
                                CreateExpandOp(node, edge, prev_node.symbol,
                                               FALSE)),
                         bound1 \cup {edge.symbol}, FALSE)

\* The lambda `collect` of GenCreateForPattern.  The node symbol is inserted
\* before the edge symbol is tested; LOG(FATAL) aborts before the
\* CreateExpand is made.
CreateCollect(acc, prev_node, edge, node) ==
    IF acc.fatal THEN acc
    ELSE LET input_symbol == prev_node.symbol
             node_existing == node.symbol \in acc.bound_symbols
             bound1 == acc.bound_symbols \cup {node.symbol}
         IN IF edge.symbol \in bound1
            THEN Planned(acc.last_op, bound1, TRUE)
            ELSE Planned(Append(acc.last_op,
                                CreateExpandOp(node, edge, input_symbol,
                                               node_existing)),
                         bound1 \cup {edge.symbol}, FALSE)

----------------------------------------------------------------------------
(* Expressions.  An AST expression is [k, sym, args, value]: k the node    *)
(* class, value what tells two nodes of the same shape apart,              *)
(* sym the symbol the symbol table gives the node (identifiers, named      *)
(* expressions, aggregations), args its children in visiting order.        *)
(* "Binary" stands for each operator of VISIT_BINARY_OPERATOR.             *)
(* An Aggregation has 0 (count of all rows), 1 or 2 (COLLECT_MAP) children. *)
(* A ListSlicing has the children list_, lower_bound_ and upper_bound_,    *)
(* the bounds nullptr when absent; an All the children identifier_,        *)
(* list_expression_ and the expression of where_; an If the children       *)
(* condition_, then_expression_ and else_expression_.                      *)

Expr(k, sym, args) == [k |-> k, sym |-> sym, args |-> args, value |-> 0]

nullptr == Expr("nullptr", NoSymbol, <<>>)

Identifier(symbol) == Expr("Identifier", symbol, <<>>)
PrimitiveLiteral == Expr("PrimitiveLiteral", NoSymbol, <<>>)
BinaryOperator(expression1, expression2) ==
    Expr("Binary", NoSymbol, <<expression1, expression2>>)
Aggregation(symbol, expressions) == Expr("Aggregation", symbol, expressions)
NamedExpression(symbol, expression) ==
    Expr("NamedExpression", symbol, <<expression>>)
ListLiteral(elements) == Expr("ListLiteral", NoSymbol, elements)
MapLiteral(elements) == Expr("MapLiteral", NoSymbol, elements)
Function(arguments) == Expr("Function", NoSymbol, arguments)
ListSlicingOperator(list, lower_bound, upper_bound) ==
    Expr("ListSlicing", NoSymbol, <<list, lower_bound, upper_bound>>)
All(identifier, list_expression, where) ==
    Expr("All", NoSymbol, <<identifier, list_expression, where>>)
IfOperator(condition, then_expression, else_expression) ==
    Expr("If", NoSymbol, <<condition, then_expression, else_expression>>)

\* The symbols of the identifiers of an expression (its free symbols).
\* An All binds its identifier inside the quantifier.
RECURSIVE ExprSymbols(_)
ExprSymbols(e) ==
    ((IF e.k = "Identifier" THEN {e.sym} ELSE {})
     \cup UNION {ExprSymbols(e.args[i]) : i \in DOMAIN e.args})
    \ (IF e.k = "All" THEN {e.args[1].sym} ELSE {})

\* The result symbols of the aggregations inside an expression.
RECURSIVE AggregationSymbols(_)
AggregationSymbols(e) ==
    (IF e.k = "Aggregation" THEN {e.sym} ELSE {})
    \cup UNION {AggregationSymbols(e.args[i]) : i \in DOMAIN e.args}

\* The members of ReturnBodyContext.  used_symbols_order is the order in
\* which the unordered set used_symbols iterates; dcheck_failed tells
\* whether the condition of a DCHECK was false during the visits.
EmptyContext ==
    [used_symbols |-> {}, output_symbols |-> <<>>, aggregations |-> <<>>,
     group_by |-> <<>>, has_aggregation |-> <<>>, named_expressions |-> <<>>,
     distinct |-> FALSE, order_by |-> <<>>, skip |-> nullptr,
     limit |-> nullptr, where |-> nullptr, used_symbols_order |-> <<>>,
     dcheck_failed |-> FALSE]

PopBack(s) == SubSeq(s, 1, Len(s) - 1)
Back(s) == s[Len(s)]

\* Visit(PrimitiveLiteral &), Visit(ParameterLookup &)
VisitLiteral(c) ==
    [c EXCEPT !.has_aggregation = Append(@, FALSE)]

\* Mutant of VisitIdentifier: the symbol is not remembered.
VisitIdentifierUnused(ident, c) ==
    [c EXCEPT !.has_aggregation = Append(@, FALSE)]

\* Visit(Identifier &)
VisitIdentifier(ident, c) ==
    [c EXCEPT !.used_symbols =
                  IF ident.sym \notin Range(c.output_symbols)
                  THEN @ \cup {ident.sym} ELSE @,
              !.has_aggregation = Append(@, FALSE)]

\* Mutant of PostVisitBinary: groups by the expression that contains the
\* aggregation.
PostVisitBinaryGroupingAggregate(op, c) ==
    LET aggr2 == Back(c.has_aggregation)
        aggr1 == Back(PopBack(c.has_aggregation))
        has_aggr == aggr1 \/ aggr2
    IN [c EXCEPT !.group_by =
                     IF has_aggr /\ ~(aggr1 /\ aggr2)
                     THEN Append(@, IF aggr1 THEN op.args[1] ELSE op.args[2])
                     ELSE @,
                 !.has_aggregation = Append(PopBack(PopBack(@)), has_aggr)]

\* PostVisit(BinaryOperator &op), the body of VISIT_BINARY_OPERATOR
PostVisitBinary(op, c) ==
    LET aggr2 == Back(c.has_aggregation)
        aggr1 == Back(PopBack(c.has_aggregation))
        has_aggr == aggr1 \/ aggr2
    IN [c EXCEPT !.group_by =
                     IF has_aggr /\ ~(aggr1 /\ aggr2)
                     THEN Append(@, IF aggr1 THEN op.args[2] ELSE op.args[1])
                     ELSE @,
                 !.has_aggregation = Append(PopBack(PopBack(@)), has_aggr)]

\* Mutant of PostVisitAggregation: the expression is not flagged as
\* aggregating.
PostVisitAggregationUnflagged(aggr, c) ==
    LET stack1 == IF Len(aggr.args) = 2 THEN PopBack(c.has_aggregation)
                  ELSE c.has_aggregation
    IN [c EXCEPT !.aggregations = Append(@, aggr),
                 !.has_aggregation =
                     IF Len(aggr.args) >= 1
                     THEN Append(PopBack(stack1), FALSE)
                     ELSE Append(stack1, FALSE)]

\* PostVisit(Aggregation &aggr)
PostVisitAggregation(aggr, c) ==
    LET stack1 == IF Len(aggr.args) = 2 THEN PopBack(c.has_aggregation)
                  ELSE c.has_aggregation
    IN [c EXCEPT !.aggregations = Append(@, aggr),
                 !.has_aggregation =
                     IF Len(aggr.args) >= 1
                     THEN Append(PopBack(stack1), TRUE)
                     ELSE Append(stack1, TRUE)]

\* Whether one of the last n flags of the stack is set.
AnyOfLast(stack, n) ==
    \E i \in (Len(stack) - n + 1)..Len(stack) : stack[i]

\* PostVisit(ListLiteral &), PostVisit(MapLiteral &), PostVisit(Function &):
\* the flags of the elements are replaced by their disjunction.
PostVisitElements(e, c) ==
    LET n == Len(e.args)
        has_aggr == AnyOfLast(c.has_aggregation, n)
    IN [c EXCEPT !.has_aggregation =
                     Append(SubSeq(@, 1, Len(@) - n), has_aggr)]

\* Mutant of PostVisitAll: the identifier of the quantifier stays used.
PostVisitAllKeeping(all, c) ==
    LET has_aggr == AnyOfLast(c.has_aggregation, 3)
    IN [c EXCEPT !.has_aggregation =
                     Append(SubSeq(@, 1, Len(@) - 3), has_aggr)]

\* PostVisit(All &all)
PostVisitAll(all, c) ==
    LET has_aggr == AnyOfLast(c.has_aggregation, 3)
    IN [c EXCEPT !.used_symbols = @ \ {all.args[1].sym},
                 !.has_aggregation =
                     Append(SubSeq(@, 1, Len(@) - 3), has_aggr)]

\* PostVisit(NamedExpression &named_expr)
PostVisitNamedExpression(named_expr, c) ==
    [c EXCEPT !.group_by =
                  IF ~Back(c.has_aggregation)
                  THEN Append(@, named_expr.args[1]) ELSE @,
              !.has_aggregation = PopBack(@)]

\* expression->Accept(*this) of the HierarchicalTreeVisitor: children first,
\* in order, then the node's PostVisit.
RECURSIVE Accept(_, _)

\* PreVisit(ListSlicingOperator &list_slicing): it visits the children
\* itself and returns false.
PreVisitListSlicing(list_slicing, c) ==
    LET list == list_slicing.args[1]
        lower_bound == list_slicing.args[2]
        upper_bound == list_slicing.args[3]
        c1 == Accept(list, c)
        list_has_aggr == Back(c1.has_aggregation)
        c2 == IF lower_bound # nullptr
              THEN Accept(lower_bound,
                          [c1 EXCEPT !.has_aggregation = PopBack(@)])
              ELSE [c1 EXCEPT !.has_aggregation = Append(PopBack(@), FALSE)]
        lower_has_aggr == Back(c2.has_aggregation)
        c3 == IF upper_bound # nullptr
              THEN Accept(upper_bound,
                          [c2 EXCEPT !.has_aggregation = PopBack(@)])
              ELSE [c2 EXCEPT !.has_aggregation = Append(PopBack(@), FALSE)]
        upper_has_aggr == Back(c3.has_aggregation)
        has_aggr == list_has_aggr \/ lower_has_aggr \/ upper_has_aggr
    IN [c3 EXCEPT !.group_by =
                      IF has_aggr /\ ~list_has_aggr THEN Append(@, list)
                      ELSE @,
                  !.has_aggregation = Append(PopBack(@), has_aggr)]

\* PreVisit(IfOperator &if_operator): it visits the children itself and
\* returns false; the flags of the three are replaced by their disjunction,
\* and DCHECK(!has_aggr) follows.
PreVisitIf(if_operator, c) ==
    LET c1 == Accept(if_operator.args[1], c)
        c2 == Accept(if_operator.args[2], c1)
        c3 == Accept(if_operator.args[3], c2)
        has_aggr == AnyOfLast(c3.has_aggregation, 3)
    IN [c3 EXCEPT !.has_aggregation =
                      Append(SubSeq(@, 1, Len(@) - 3), has_aggr),
                  !.dcheck_failed = @ \/ has_aggr]

Accept(e, c) ==
    LET n == Len(e.args)
        visited[i \in 0..n] ==
            IF i = 0 THEN c ELSE Accept(e.args[i], visited[i - 1])
    IN CASE e.k = "PrimitiveLiteral" -> VisitLiteral(c)
         [] e.k = "Identifier" -> VisitIdentifier(e, c)
         [] e.k = "Binary" -> PostVisitBinary(e, visited[n])
         [] e.k = "Aggregation" -> PostVisitAggregation(e, visited[n])
         [] e.k = "NamedExpression" -> PostVisitNamedExpression(e, visited[n])
         [] e.k \in {"ListLiteral", "MapLiteral", "Function"} ->
                PostVisitElements(e, visited[n])
         [] e.k = "All" -> PostVisitAll(e, visited[n])
         [] e.k = "ListSlicing" -> PreVisitListSlicing(e, c)
         [] e.k = "If" -> PreVisitIf(e, c)
         [] OTHER -> visited[n]

\* The sequences that enumerate the set S once each: the orders in which an
\* std::unordered_set (or unordered_map) may be iterated.
Orders(S) ==
    {o \in [1..Cardinality(S) -> S] : \A x \in S : \E i \in DOMAIN o : o[i] = x}

\* The names of the symbols of a sequence.
Names(symbols) == [i \in DOMAIN symbols |-> name(symbols[i])]

\* The results std::sort may give for a sequence whose elements have the
\* names `names`, as the orders in which it leaves the elements: every
\* order that is ascending by name.  std::sort is not stable: the order in
\* which it leaves elements of one name is unspecified, and each call
\* settles it on its own.
SortedOrders(names) ==
    {o \in Orders(DOMAIN names)
       : \A i, j \in DOMAIN o : i < j => names[o[i]] <= names[o[j]]}

\* Mutant of SortByName: the sequence is left as it is.
SortByNameUnsorted(s, order) == s

\* std::sort of the sequence s by name, `order` being the order in which
\* the call leaves the elements.
SortByName(s, order) == [i \in DOMAIN s |-> s[order[i]]]

\* In ExpandUserSymbols, `iteration` is the nondeterminism of the loop and
\* of the two sorts: iteration.bound is the order in which the loop iterates
\* bound_symbols_, iteration.symbols the result of the std::sort of
\* output_symbols_ and iteration.expressions that of named_expressions_.

\* Mutant of ExpandUserSymbols: every bound symbol is expanded.
ExpandEverySymbol(c, iteration) ==
    LET expanded == iteration.bound
        ident(i) == Identifier(expanded[i])
        order == CHOOSE o \in SortedOrders(Names(expanded)) : TRUE
    IN [c EXCEPT
          !.named_expressions =
              SortByName([i \in DOMAIN expanded |->
                              NamedExpression(expanded[i], ident(i))], order),
          !.output_symbols = SortByName(expanded, order),
          !.used_symbols = @ \cup Range(expanded),
          !.group_by = @ \o [i \in DOMAIN expanded |-> ident(i)]]

\* ReturnBodyContext::ExpandUserSymbols
ExpandUserSymbols(c, iteration) ==
    LET expanded == SelectSeq(iteration.bound, user_declared)
        ident(i) == Identifier(expanded[i])
    IN [c EXCEPT
          !.named_expressions =
              SortByName([i \in DOMAIN expanded |->
                              NamedExpression(expanded[i], ident(i))],
                         iteration.expressions),
          !.output_symbols = SortByName(expanded, iteration.symbols),
          !.used_symbols = @ \cup Range(expanded),
          !.group_by = @ \o [i \in DOMAIN expanded |-> ident(i)]]

\* A return body is [named_expressions, all_identifiers, distinct, order_by,
\* skip, limit]; skip and limit are nullptr when absent; a where is an
\* expression or nullptr.

\* The visits of the constructor ReturnBodyContext::ReturnBodyContext.
VisitBody(body, iteration, where) ==
    LET c0 == [EmptyContext EXCEPT !.distinct = body.distinct,
                                   !.order_by = body.order_by,
                                   !.skip = body.skip, !.limit = body.limit,
                                   !.where = where]
        c1 == IF body.all_identifiers THEN ExpandUserSymbols(c0, iteration)
              ELSE c0
        n == Len(body.named_expressions)
        named[i \in 0..n] ==
            IF i = 0 THEN c1
            ELSE LET named_expr == body.named_expressions[i]
                     c2 == [named[i - 1] EXCEPT
                                !.output_symbols = Append(@, named_expr.sym)]
                     c3 == Accept(named_expr, c2)
                 IN [c3 EXCEPT !.named_expressions = Append(@, named_expr)]
        m == Len(body.order_by)
        ordered[i \in 0..m] ==
            IF i = 0 THEN named[n]
            ELSE Accept(body.order_by[i], ordered[i - 1])
    IN IF named[n].aggregations = <<>>
       THEN IF where # nullptr THEN Accept(where, ordered[m]) ELSE ordered[m]
       ELSE named[n]

\* The choices of a ReturnBodyContext over the bound symbols iterated in
\* one of `bound_orders`: the two sorts of ExpandUserSymbols, the order in
\* which used_symbols iterates (one of `used_orders`) and whether DCHECK is
\* compiled in (one of `builds`; it is compiled to nothing when NDEBUG is
\* defined).
Iterations(bound_orders, used_orders, builds) ==
    UNION {{[bound |-> b, symbols |-> s, expressions |-> e, used |-> u,
             debug |-> d]
            : s \in SortedOrders(Names(SelectSeq(b, user_declared))),
              e \in SortedOrders(Names(SelectSeq(b, user_declared))),
              u \in used_orders, d \in builds}
           : b \in bound_orders}

\* One of them.
AnyIteration(bound) ==
    CHOOSE i \in Iterations(Orders(bound), {<<>>}, {FALSE}) : TRUE

\* The used symbols of a body do not depend on the iteration orders.
UsedSymbols(body, bound, where) ==
    VisitBody(body, AnyIteration(bound), where).used_symbols

\* ReturnBodyContext::ReturnBodyContext
ReturnBodyContext(body, bound, iteration, where) ==
    [VisitBody(body, iteration, where)
         EXCEPT !.used_symbols_order = iteration.used]

----------------------------------------------------------------------------
(* Operators of a return body.                                             *)

SeqSymbols(exprs) == UNION {ExprSymbols(exprs[i]) : i \in DOMAIN exprs}

\* The symbols a Produce reads: the identifiers outside aggregations and the
\* result symbols of the aggregations.
RECURSIVE ProducedFrom(_)
ProducedFrom(e) ==
    IF e.k = "Aggregation" THEN {e.sym}
    ELSE ((IF e.k = "Identifier" THEN {e.sym} ELSE {})
          \cup UNION {ProducedFrom(e.args[i]) : i \in DOMAIN e.args})
         \ (IF e.k = "All" THEN {e.args[1].sym} ELSE {})

AccumulateOp(symbols, advance_command) ==
    Op("Accumulate", {}, Range(symbols), advance_command, symbols, <<>>)

AggregateOp(aggregations, group_by, remember) ==
    [Op("Aggregate", {aggregations[i].sym : i \in DOMAIN aggregations},
        Range(remember) \cup SeqSymbols(group_by)
            \cup UNION {SeqSymbols(aggregations[i].args) :
                          i \in DOMAIN aggregations},
        FALSE, remember, group_by)
     EXCEPT !.aggregations = aggregations]

ProduceOp(named_expressions) ==
    Op("Produce", {named_expressions[i].sym : i \in DOMAIN named_expressions},
       UNION {ProducedFrom(named_expressions[i].args[1]) :
                i \in DOMAIN named_expressions},
       FALSE, [i \in DOMAIN named_expressions |-> named_expressions[i].sym],
       named_expressions)

DistinctOp(value_symbols) ==
    Op("Distinct", {}, Range(value_symbols), FALSE, value_symbols, <<>>)

OrderByOp(order_by, output_symbols) ==
    Op("OrderBy", {}, SeqSymbols(order_by) \cup Range(output_symbols), FALSE,
       output_symbols, order_by)

SkipOp(expression) == Op("Skip", {}, ExprSymbols(expression), FALSE, <<>>,
                         <<expression>>)

LimitOp(expression) == Op("Limit", {}, ExprSymbols(expression), FALSE, <<>>,
                          <<expression>>)

FilterOp(expression) == Op("Filter", {}, ExprSymbols(expression), FALSE, <<>>,
                           <<expression>>)

\* `if (cond) last_op = new Op(last_op, ...)`
Emit(cond, last_op, op) == IF cond THEN Append(last_op, op) ELSE last_op

\* std::vector<Symbol> used_symbols(body.used_symbols().begin(), ...end()):
\* the set copied in the order in which it iterates.
UsedSymbolsVector(body) == body.used_symbols_order

\* Mutant of GenReturnBody: Limit is planned before Skip and the Filter of
\* WHERE right after Produce.
GenReturnBodyMisordered(input_op, advance_command, body, accumulate) ==
    LET used_symbols == UsedSymbolsVector(body)
        op1 == Emit(accumulate, input_op,
                    AccumulateOp(used_symbols, advance_command))
        op2 == Emit(body.aggregations # <<>>, op1,
                    AggregateOp(body.aggregations, body.group_by,
                                used_symbols))
        op3 == Append(op2, ProduceOp(body.named_expressions))
        op4 == Emit(body.where # nullptr, op3, FilterOp(body.where))
        op5 == Emit(body.distinct, op4, DistinctOp(body.output_symbols))
        op6 == Emit(body.order_by # <<>>, op5,
                    OrderByOp(body.order_by, body.output_symbols))
        op7 == Emit(body.limit # nullptr, op6, LimitOp(body.limit))
    IN Emit(body.skip # nullptr, op7, SkipOp(body.skip))

\* GenReturnBody; `body` is the ReturnBodyContext.
GenReturnBody(input_op, advance_command, body, accumulate) ==
    LET used_symbols == UsedSymbolsVector(body)
        op1 == Emit(accumulate, input_op,
                    AccumulateOp(used_symbols, advance_command))
        op2 == Emit(body.aggregations # <<>>, op1,
                    AggregateOp(body.aggregations, body.group_by,
                                used_symbols))
        op3 == Append(op2, ProduceOp(body.named_expressions))
        op4 == Emit(body.distinct, op3, DistinctOp(body.output_symbols))
        op5 == Emit(body.order_by # <<>>, op4,
                    OrderByOp(body.order_by, body.output_symbols))
        op6 == Emit(body.skip # nullptr, op5, SkipOp(body.skip))
        op7 == Emit(body.limit # nullptr, op6, LimitOp(body.limit))
    IN Emit(body.where # nullptr, op7, FilterOp(body.where))

\* In GenReturn and GenWith, `iteration` is the nondeterminism of the
\* unordered sets, of the sorts and of the build (see Iterations).

\* Whether the constructor of the ReturnBodyContext aborts the process: a
\* DCHECK whose condition is false is fatal where DCHECK is compiled in.
DCheckAborts(body, iteration) == iteration.debug /\ body.dcheck_failed

\* Mutant of GenReturn: the command is advanced after a write.
GenReturnAdvancing(ret, input_op, write, bound, iteration) ==
    LET body == ReturnBodyContext(ret.body, bound, iteration, nullptr)
    IN Planned(GenReturnBody(input_op, write, body, write), bound, FALSE)

\* GenReturn
GenReturn(ret, input_op, write, bound, iteration) ==
    LET accumulate == write
        advance_command == FALSE
        body == ReturnBodyContext(ret.body, bound, iteration, nullptr)
    IN Planned(GenReturnBody(input_op, advance_command, body, accumulate),
               bound, DCheckAborts(body, iteration))

\* Mutant of GenWith: the old symbols stay bound.
GenWithKeepingBound(with, input_op, write, bound, iteration) ==
    LET body == ReturnBodyContext(with.body, bound, iteration, with.where)
    IN Planned(GenReturnBody(input_op, write, body, write),
               bound \cup Range(body.output_symbols), FALSE)

\* GenWith
GenWith(with, input_op, write, bound, iteration) ==
    LET accumulate == write
        advance_command == write
        body == ReturnBodyContext(with.body, bound, iteration, with.where)
        last_op == GenReturnBody(input_op, advance_command, body, accumulate)
    IN Planned(last_op, Range(body.output_symbols),
               DCheckAborts(body, iteration))

----------------------------------------------------------------------------
(* The filter store and the named paths of a MATCH.  The store is a        *)
(* sequence of FilterInfo [expression, used_symbols]; a predicate is the   *)
(* AST node [k = "Predicate", value = its number in the WHERE], its        *)
(* children the identifiers it reads.  named_paths maps a path symbol to   *)
(* the symbols of its atoms.                                               *)

FilterInfo(expression, used_symbols) ==
    [expression |-> expression, used_symbols |-> used_symbols]

AndOperator(expression1, expression2) ==
    Expr("And", NoSymbol, <<expression1, expression2>>)

\* impl::BoolJoin<AndOperator> of rule_based_planner.hpp.
BoolJoin(expr1, expr2) ==
    IF expr1 = nullptr THEN expr2 ELSE AndOperator(expr1, expr2)

\* The conjuncts of a joined predicate, left to right.
RECURSIVE Conjuncts(_)
Conjuncts(e) ==
    IF e = nullptr THEN <<>>
    ELSE IF e.k = "And" THEN Conjuncts(e.args[1]) \o Conjuncts(e.args[2])
    ELSE <<e>>

HasBoundFilterSymbols(bound, filter) ==
    \A symbol \in filter.used_symbols : symbol \in bound

\* Mutant of ExtractFilters: the predicates are joined in reverse.
ExtractFiltersReversed(bound, filters) ==
    LET n == Len(filters)
        it[i \in 0..n] ==
            IF i = 0 THEN [filter_expr |-> nullptr, filters |-> <<>>]
            ELSE IF HasBoundFilterSymbols(bound, filters[i])
            THEN [it[i - 1] EXCEPT
                     !.filter_expr =
                         IF @ = nullptr THEN filters[i].expression
                         ELSE AndOperator(filters[i].expression, @)]
            ELSE [it[i - 1] EXCEPT !.filters = Append(@, filters[i])]
    IN it[n]

\* ExtractFilters: the result and the store it leaves.
ExtractFilters(bound, filters) ==
    LET n == Len(filters)
        it[i \in 0..n] ==
            IF i = 0 THEN [filter_expr |-> nullptr, filters |-> <<>>]
            ELSE IF HasBoundFilterSymbols(bound, filters[i])
            THEN [it[i - 1] EXCEPT
                     !.filter_expr = BoolJoin(@, filters[i].expression)]
            ELSE [it[i - 1] EXCEPT !.filters = Append(@, filters[i])]
    IN it[n]

\* Mutant of GenFilters: the extracted predicates are dropped.
GenFiltersDropping(last_op, bound, filters) ==
    [last_op |-> last_op, filters |-> ExtractFilters(bound, filters).filters]

\* GenFilters: the operator tail and the store it leaves.
GenFilters(last_op, bound, filters) ==
    LET extracted == ExtractFilters(bound, filters)
    IN [last_op |-> Emit(extracted.filter_expr # nullptr, last_op,
                         FilterOp(extracted.filter_expr)),
        filters |-> extracted.filters]

\* The function f without the argument x: named_paths.erase.
Erase(f, x) == [y \in DOMAIN f \ {x} |-> f[y]]

\* Mutant of GenNamedPaths: a path with a bound atom is constructed.
GenNamedPathsEager(last_op, bound, named_paths, order) ==
    LET n == Len(order)
        it[i \in 0..n] ==
            IF i = 0
            THEN [last_op |-> last_op, bound_symbols |-> bound,
                  named_paths |-> named_paths]
            ELSE LET acc == it[i - 1]
                     path == order[i]
                 IN IF path \in DOMAIN acc.named_paths
                       /\ \E sym \in Range(acc.named_paths[path]) :
                              sym \in acc.bound_symbols
                    THEN [last_op |->
                              Append(acc.last_op,
                                     ConstructNamedPathOp(path,
                                                          acc.named_paths[path])),
                          bound_symbols |-> acc.bound_symbols \cup {path},
                          named_paths |-> Erase(acc.named_paths, path)]
                    ELSE acc
    IN it[n]

\* GenNamedPaths: the operator tail, the bound symbols and the pending paths
\* it leaves.  order is the order in which the unordered map iterates.
GenNamedPaths(last_op, bound, named_paths, order) ==
    LET n == Len(order)
        it[i \in 0..n] ==
            IF i = 0
            THEN [last_op |-> last_op, bound_symbols |-> bound,
                  named_paths |-> named_paths]
            ELSE LET acc == it[i - 1]
                     path == order[i]
                     all_are_bound(syms) ==
                         \A sym \in Range(syms) : sym \in acc.bound_symbols
                 IN IF path \in DOMAIN acc.named_paths
                       /\ all_are_bound(acc.named_paths[path])
                    THEN [last_op |->
                              Append(acc.last_op,
                                     ConstructNamedPathOp(path,
                                                          acc.named_paths[path])),
                          bound_symbols |-> acc.bound_symbols \cup {path},
                          named_paths |-> Erase(acc.named_paths, path)]
                    ELSE acc
    IN it[n]

----------------------------------------------------------------------------
(* The planning of a MATCH (plan/rule_based_planner.hpp is not part of the *)
(* sources): the first node of a pattern is scanned unless it is bound,    *)
(* every (node, edge, node) triple is an Expand, and after each binding    *)
(* the filter store is drained and the named paths are constructed.        *)

ScanAllOp(node) ==
    Op("ScanAll", {node.symbol}, {}, FALSE, <<node.symbol>>, <<>>)

ExpandOp(node, edge, input_symbol, existing_node) ==
    Op("Expand",
       {edge.symbol} \cup (IF existing_node THEN {} ELSE {node.symbol}),
       {input_symbol} \cup (IF existing_node THEN {node.symbol} ELSE {}),
       existing_node, <<node.symbol, edge.symbol, input_symbol>>, <<>>)

\* The records of the calls of GenFilters and GenNamedPaths: the arguments,
\* the length of the operator tail before and after, and what the call left.
FilterCall(last_op, bound, filters, result) ==
    [input_op |-> Len(last_op), bound_symbols |-> bound, filters |-> filters,
     filter_expr |-> ExtractFilters(bound, filters).filter_expr,
     last_op |-> Len(result.last_op), filters_left |-> result.filters]

PathCall(last_op, bound, named_paths, order, result) ==
    [input_op |-> Len(last_op), bound_symbols |-> bound,
     named_paths |-> named_paths, order |-> order,
     last_op |-> Len(result.last_op), bound_left |-> result.bound_symbols,
     named_paths_left |-> result.named_paths]

\* The value threaded through the planning of a MATCH.
Matching(last_op, bound, filters, named_paths) ==
    [last_op |-> last_op, bound_symbols |-> bound, filters |-> filters,
     named_paths |-> named_paths, filter_calls |-> <<>>, path_calls |-> <<>>,
     fatal |-> FALSE, null |-> FALSE]

\* The value left by a binding: `first`, `paths` and `second` are what the
\* three calls returned.
Bound(acc, last_op, bound, order, first, paths, second) ==
    [acc EXCEPT
          !.last_op = second.last_op,
          !.bound_symbols = paths.bound_symbols,
          !.filters = second.filters,
          !.named_paths = paths.named_paths,
          !.filter_calls =
              @ \o <<FilterCall(last_op, bound, acc.filters, first),
                     FilterCall(paths.last_op, paths.bound_symbols,
                                first.filters, second)>>,
          !.path_calls =
              Append(@, PathCall(first.last_op, bound, acc.named_paths, order,
                                 paths))]

\* After the binding operator `op`: GenFilters, GenNamedPaths and, for the
\* path symbols, GenFilters again.
Bind(acc, op, order) ==
    LET last_op == Append(acc.last_op, op)
        bound == acc.bound_symbols \cup op.intro
        first == GenFilters(last_op, bound, acc.filters)
        paths == GenNamedPaths(first.last_op, bound, acc.named_paths, order)
    IN Bound(acc, last_op, bound, order, first, paths,
             GenFilters(paths.last_op, paths.bound_symbols, first.filters))

MatchBase(acc, node, order) ==
    IF node.symbol \in acc.bound_symbols THEN acc
    ELSE Bind(acc, ScanAllOp(node), order)

MatchCollect(acc, prev_node, edge, node, order) ==
    Bind(acc, ExpandOp(node, edge, prev_node.symbol,
                       node.symbol \in acc.bound_symbols), order)

\* The pending named paths of the patterns of a MATCH.
NamedPaths(patterns) ==
    LET named == {i \in DOMAIN patterns : user_declared(patterns[i].identifier)}
        of(path) == CHOOSE i \in named : patterns[i].identifier = path
    IN [path \in {patterns[i].identifier : i \in named} |->
          [j \in DOMAIN patterns[of(path)].atoms |->
              patterns[of(path)].atoms[j].symbol]]

----------------------------------------------------------------------------
(* ReducePattern and its users.  The lambdas handed to ReducePattern are    *)
(* records of their code and of the variables they capture.                *)

CreateLambdas(input_op, bound) ==
    [code |-> "Create", input_op |-> input_op, bound_symbols |-> bound,
     acc |-> <<>>, order |-> <<>>]

MatchLambdas(acc, order) ==
    [code |-> "Match", input_op |-> <<>>, bound_symbols |-> {}, acc |-> acc,
     order |-> order]

\* Lambdas that record their calls: the result of a call is the sequence of
\* the calls made so far, each with the result and the atoms it received.
TraceLambdas ==
    [code |-> "Trace", input_op |-> <<>>, bound_symbols |-> {}, acc |-> <<>>,
     order |-> <<>>]

TraceBase(node) == <<[call |-> "base", acc |-> <<>>, atoms |-> <<node>>]>>

TraceCollect(acc, prev_node, edge, node) ==
    Append(acc, [call |-> "collect", acc |-> acc,
                 atoms |-> <<prev_node, edge, node>>])

\* base(*atoms_it)
Base(lambdas, node) ==
    CASE lambdas.code = "Create" ->
            CreateBase(lambdas.input_op, lambdas.bound_symbols, node)
      [] lambdas.code = "Match" ->
            MatchBase(lambdas.acc, node, lambdas.order)
      [] OTHER -> TraceBase(node)

\* collect(last_res, prev_node, edge, node)
Collect(lambdas, acc, prev_node, edge, node) ==
    CASE lambdas.code = "Create" ->
            CreateCollect(acc, prev_node, edge, node)
      [] lambdas.code = "Match" ->
            MatchCollect(acc, prev_node, edge, node, lambdas.order)
      [] OTHER -> TraceCollect(acc, prev_node, edge, node)

\* Mutant of ReducePattern: every collect receives the result of base.
ReducePatternOnBase(pattern, lambdas) ==
    LET atoms == pattern.atoms
        triples == (Len(atoms) - 1) \div 2
        last_res[i \in 0..triples] ==
            IF i = 0 THEN Base(lambdas, atoms[1])
            ELSE Collect(lambdas, last_res[0], atoms[2 * i - 1],
                         atoms[2 * i], atoms[2 * i + 1])
    IN last_res[triples]

\* ReducePattern: base on the first node, then collect on every
\* (prev_node, edge, node) triple, each call receiving the previous result.
ReducePattern(pattern, lambdas) ==
    LET atoms == pattern.atoms
        triples == (Len(atoms) - 1) \div 2
        last_res[i \in 0..triples] ==
            IF i = 0 THEN Base(lambdas, atoms[1])
            ELSE Collect(lambdas, last_res[i - 1], atoms[2 * i - 1],
                         atoms[2 * i], atoms[2 * i + 1])
    IN last_res[triples]

\* Mutant of GenCreateForPattern: the named path is built over the nodes
\* only.
GenCreateForPatternNodesOnly(pattern, input_op, bound) ==
    LET reduced == ReducePattern(pattern, CreateLambdas(input_op, bound))
        nodes == {i \in DOMAIN pattern.atoms : i % 2 = 1}
        path_elements == [i \in 1..Cardinality(nodes) |->
                             pattern.atoms[2 * i - 1].symbol]
    IN IF reduced.fatal THEN reduced
       ELSE IF user_declared(pattern.identifier)
       THEN Planned(Append(reduced.last_op,
                           ConstructNamedPathOp(pattern.identifier,
                                                path_elements)),
                    reduced.bound_symbols, FALSE)
       ELSE reduced

\* Mutant of GenCreateForPattern: the path symbol is bound as well.
GenCreateForPatternBindingPath(pattern, input_op, bound) ==
    LET reduced == ReducePattern(pattern, CreateLambdas(input_op, bound))
        path_elements == [i \in DOMAIN pattern.atoms |-> pattern.atoms[i].symbol]
    IN IF reduced.fatal THEN reduced
       ELSE IF user_declared(pattern.identifier)
       THEN Planned(Append(reduced.last_op,
                           ConstructNamedPathOp(pattern.identifier,
                                                path_elements)),
                    reduced.bound_symbols \cup {pattern.identifier}, FALSE)
       ELSE reduced

GenCreateForPattern(pattern, input_op, bound) ==
    LET reduced == ReducePattern(pattern, CreateLambdas(input_op, bound))
        path_elements == [i \in DOMAIN pattern.atoms |-> pattern.atoms[i].symbol]
    IN IF reduced.fatal THEN reduced
       ELSE IF user_declared(pattern.identifier)
       THEN Planned(Append(reduced.last_op,
                           ConstructNamedPathOp(pattern.identifier,
                                                path_elements)),
                    reduced.bound_symbols, FALSE)
       ELSE reduced

GenCreate(create, input_op, bound) ==
    LET n == Len(create.patterns)
        last_op[i \in 0..n] ==
            IF i = 0 THEN Planned(input_op, bound, FALSE)
            ELSE IF last_op[i - 1].fatal THEN last_op[i - 1]
            ELSE GenCreateForPattern(create.patterns[i], last_op[i - 1].last_op,
                                     last_op[i - 1].bound_symbols)
    IN last_op[n]

PlanMatching(match, input_op, bound, order) ==
    LET n == Len(match.patterns)
        last_op[i \in 0..n] ==
            IF i = 0
            THEN Matching(input_op, bound, match.filters,
                          NamedPaths(match.patterns))
            ELSE ReducePattern(match.patterns[i],
                               MatchLambdas(last_op[i - 1], order))
    IN last_op[n]

----------------------------------------------------------------------------
(* Write clauses.  A clause is [type, patterns, identifier, expressions,   *)
(* flag, body, where, filters]: patterns of a Create or a Match;           *)
(* identifier the symbol of                                                *)
(* set->identifier_ / rem->identifier_; expressions the expressions of a   *)
(* Delete, the property lookup and value of a Set/Remove; flag the update_ *)
(* of SetProperties and the detach_ of Delete; body and where of a With or *)
(* Return; filters the filter store of a Match.                            *)

PropertyLookup(expression) == Expr("PropertyLookup", NoSymbol, <<expression>>)

NoBody ==
    [named_expressions |-> <<>>, all_identifiers |-> FALSE, distinct |-> FALSE,
     order_by |-> <<>>, skip |-> nullptr, limit |-> nullptr]

Clause(type, patterns, identifier, expressions, flag) ==
    [type |-> type, patterns |-> patterns, identifier |-> identifier,
     expressions |-> expressions, flag |-> flag, body |-> NoBody,
     where |-> nullptr, filters |-> <<>>]

BodyClause(type, body, where) ==
    [type |-> type, patterns |-> <<>>, identifier |-> NoSymbol,
     expressions |-> <<>>, flag |-> FALSE, body |-> body, where |-> where,
     filters |-> <<>>]

DeleteOp(expressions, detach) ==
    Op("Delete", {}, SeqSymbols(expressions), detach, <<>>, expressions)

SetPropertyOp(lookup, expression) ==
    Op("SetProperty", {}, SeqSymbols(<<lookup, expression>>), FALSE, <<>>,
       <<lookup, expression>>)

\* flag is TRUE for Op::UPDATE, FALSE for Op::REPLACE
SetPropertiesOp(input_symbol, expression, update) ==
    Op("SetProperties", {}, {input_symbol} \cup ExprSymbols(expression),
       update, <<input_symbol>>, <<expression>>)

SetLabelsOp(input_symbol) ==
    Op("SetLabels", {}, {input_symbol}, FALSE, <<input_symbol>>, <<>>)

RemovePropertyOp(lookup) ==
    Op("RemoveProperty", {}, ExprSymbols(lookup), FALSE, <<>>, <<lookup>>)

RemoveLabelsOp(input_symbol) ==
    Op("RemoveLabels", {}, {input_symbol}, FALSE, <<input_symbol>>, <<>>)

\* Mutant of HandleWriteClause: SetProperties always replaces.
HandleWriteClauseReplacing(clause, input_op, bound) ==
    CASE clause.type = "Create" -> GenCreate(clause, input_op, bound)
      [] clause.type = "Delete" ->
            Planned(Append(input_op, DeleteOp(clause.expressions, clause.flag)),
                    bound, FALSE)
      [] clause.type = "SetProperty" ->
            Planned(Append(input_op, SetPropertyOp(clause.expressions[1],
                                                   clause.expressions[2])),
                    bound, FALSE)
      [] clause.type = "SetProperties" ->
            Planned(Append(input_op,
                           SetPropertiesOp(clause.identifier,
                                           clause.expressions[1], FALSE)),
                    bound, FALSE)
      [] clause.type = "SetLabels" ->
            Planned(Append(input_op, SetLabelsOp(clause.identifier)), bound,
                    FALSE)
      [] clause.type = "RemoveProperty" ->
            Planned(Append(input_op, RemovePropertyOp(clause.expressions[1])),
                    bound, FALSE)
      [] clause.type = "RemoveLabels" ->
            Planned(Append(input_op, RemoveLabelsOp(clause.identifier)), bound,
                    FALSE)
      [] OTHER -> NotPlanned(bound)

\* HandleWriteClause
HandleWriteClause(clause, input_op, bound) ==
    CASE clause.type = "Create" -> GenCreate(clause, input_op, bound)
      [] clause.type = "Delete" ->
            Planned(Append(input_op, DeleteOp(clause.expressions, clause.flag)),
                    bound, FALSE)
      [] clause.type = "SetProperty" ->
            Planned(Append(input_op, SetPropertyOp(clause.expressions[1],
                                                   clause.expressions[2])),
                    bound, FALSE)
      [] clause.type = "SetProperties" ->
            Planned(Append(input_op,
                           SetPropertiesOp(clause.identifier,
                                           clause.expressions[1], clause.flag)),
                    bound, FALSE)
      [] clause.type = "SetLabels" ->
            Planned(Append(input_op, SetLabelsOp(clause.identifier)), bound,
                    FALSE)
      [] clause.type = "RemoveProperty" ->
            Planned(Append(input_op, RemovePropertyOp(clause.expressions[1])),
                    bound, FALSE)
      [] clause.type = "RemoveLabels" ->
            Planned(Append(input_op, RemoveLabelsOp(clause.identifier)), bound,
                    FALSE)
      [] OTHER -> NotPlanned(bound)

----------------------------------------------------------------------------
(* The clauses semantic analysis can hand to the planner in the current    *)
(* state.  An identifier refers to a user declared symbol that is in scope *)
(* (an anonymous symbol has no name to refer to it by) or declares a new   *)
(* symbol, which gets the next position of the symbol table.               *)

UserSymbols(symbols) == {x \in symbols : user_declared(x)}

NextPosition(symbols) ==
    SetMax({positions} \cup {x.position : x \in symbols}) + 1

FreshSymbols(symbols, declared) ==
    IF NextPosition(symbols) <= MaxSymbols
    THEN {Symbol(NextPosition(symbols), u) : u \in declared}
    ELSE {}

\* The symbols a named path has been constructed for.
PathSymbols ==
    UNION {plan[i].intro : i \in {j \in DOMAIN plan :
                                     plan[j].kind = "ConstructNamedPath"}}

\* The variables a pattern atom can name again: those in scope that are not
\* paths, and those of the atoms before it.
Known(symbols) == (scope \ PathSymbols) \cup UserSymbols(symbols)

RECURSIVE SeqSum(_)
SeqSum(s) == IF s = <<>> THEN 0 ELSE s[1] + SeqSum(Tail(s))

\* Whether atom n of the patterns of `shape` (the numbers of atoms of the
\* patterns), counted through all of them, is a node.
IsNode(shape, n) ==
    LET i == CHOOSE j \in DOMAIN shape :
                 SeqSum(SubSeq(shape, 1, j - 1)) < n
                 /\ n <= SeqSum(SubSeq(shape, 1, j))
    IN (n - SeqSum(SubSeq(shape, 1, i - 1))) % 2 = 1

\* The symbol sequences of the first n atoms of the patterns of `shape`.  A
\* rich clause draws every atom from the variables known so far and a new
\* named or anonymous symbol; a lean one has new named nodes, or known ones,
\* and new anonymous edges.
RECURSIVE AtomSymbols(_, _, _)
AtomSymbols(shape, n, rich) ==
    IF n = 0 THEN {<<>>}
    ELSE UNION {{Append(s, x)
                 : x \in IF rich
                         THEN Known(Range(s))
                              \cup FreshSymbols(Range(s), BOOLEAN)
                         ELSE IF IsNode(shape, n)
                         THEN Known(Range(s))
                              \cup FreshSymbols(Range(s), {TRUE})
                         ELSE FreshSymbols(Range(s), {FALSE})}
                : s \in AtomSymbols(shape, n - 1, rich)}

\* The numbers of atoms of the patterns of a CREATE: odd, MaxAtoms in all.
RECURSIVE PatternShapes(_, _)
PatternShapes(atoms, patterns) ==
    IF patterns = 0 THEN {}
    ELSE LET first == {n \in 1..atoms : n % 2 = 1}
         IN {<<n>> : n \in first}
            \cup UNION {{<<n>> \o rest : rest \in PatternShapes(atoms - n,
                                                                patterns - 1)}
                        : n \in first}

\* The patterns of shape `shape` over the atom symbols `symbols`; named[i]
\* tells whether pattern i has a user declared identifier (p = (a)-[e]->(b)),
\* whose path symbol is new.
PatternsOf(shape, symbols, named) ==
    LET start(i) == SeqSum(SubSeq(shape, 1, i - 1))
        paths_before(i) == Cardinality({j \in 1..(i - 1) : named[j]})
        atom(i, j) == IF j % 2 = 1 THEN NodeAtom(symbols[start(i) + j])
                      ELSE EdgeAtom(symbols[start(i) + j])
    IN [i \in DOMAIN shape |->
          [identifier |-> IF named[i]
                          THEN Symbol(NextPosition(Range(symbols))
                                          + paths_before(i), TRUE)
                          ELSE NoSymbol,
           atoms |-> [j \in 1..shape[i] |-> atom(i, j)]]]

AtomSymbolsOf(patterns) ==
    UNION {{patterns[i].atoms[j].symbol : j \in DOMAIN patterns[i].atoms}
           : i \in DOMAIN patterns}

PatternSymbols(patterns) ==
    UNION {{patterns[i].identifier}
           \cup {patterns[i].atoms[j].symbol : j \in DOMAIN patterns[i].atoms}
           : i \in DOMAIN patterns}

\* The pattern lists of at most `patterns` patterns and `atoms` atoms; with
\* `named`, a pattern may have a user declared identifier.
Patterns(atoms, patterns, rich, named) ==
    {p \in UNION {UNION {{PatternsOf(shape, symbols, flags)
                          : flags \in [DOMAIN shape ->
                                         IF named THEN BOOLEAN ELSE {FALSE}]}
                         : symbols \in AtomSymbols(shape, SeqSum(shape), rich)}
                  : shape \in PatternShapes(atoms, patterns)}
       : \A x \in PatternSymbols(p) : x.position <= MaxSymbols}

\* The CREATE clauses.
CreateClauses(atoms, patterns, rich, named) ==
    {Clause("Create", p, NoSymbol, <<>>, FALSE)
     : p \in Patterns(atoms, patterns, rich, named)}

\* The predicate number `id` of a WHERE, reading `symbols`.
Predicate(id, symbols) ==
    LET order == CHOOSE o \in Orders(symbols) : TRUE
    IN [Expr("Predicate", NoSymbol,
             [i \in DOMAIN order |-> Identifier(order[i])])
        EXCEPT !.value = id]

\* The filter stores of at most n predicates, each reading at most two of
\* the symbols `variables`.
RECURSIVE FilterLists(_, _)
FilterLists(n, variables) ==
    IF n = 0 THEN {<<>>}
    ELSE LET shorter == FilterLists(n - 1, variables)
         IN shorter
            \cup {Append(s, FilterInfo(Predicate(n, used), used))
                  : s \in {t \in shorter : Len(t) = n - 1},
                    used \in {u \in SUBSET variables : Cardinality(u) <= 2}}

\* The MATCH clauses that bind a new symbol: patterns with new anonymous
\* edges, and predicates over the variables in scope, the symbols of the
\* patterns and the paths.
MatchClauses(atoms, patterns, named, predicates) ==
    UNION {{[Clause("Match", p, NoSymbol, <<>>, FALSE) EXCEPT !.filters = f]
            : f \in FilterLists(predicates,
                                scope \cup (PatternSymbols(p) \ {NoSymbol}))}
           : p \in {q \in Patterns(atoms, patterns, FALSE, named)
                    : ~(AtomSymbolsOf(q) \subseteq bound_symbols)}}

\* SET, REMOVE and DELETE clauses over one variable in scope.
AllWriteClauses ==
    UNION {{Clause("Delete", <<>>, NoSymbol, <<Identifier(x)>>, detach)
            : detach \in BOOLEAN}
           \cup {Clause("SetProperties", <<>>, x, <<PrimitiveLiteral>>, update)
                 : update \in BOOLEAN}
           \cup {Clause("SetProperty", <<>>, NoSymbol,
                        <<PropertyLookup(Identifier(x)), PrimitiveLiteral>>,
                        FALSE),
                 Clause("SetLabels", <<>>, x, <<>>, FALSE),
                 Clause("RemoveProperty", <<>>, NoSymbol,
                        <<PropertyLookup(Identifier(x))>>, FALSE),
                 Clause("RemoveLabels", <<>>, x, <<>>, FALSE)}
           : x \in scope}

WriteClauses(types) == {c \in AllWriteClauses : c.type \in types}

WriteTypes ==
    {"Delete", "SetProperty", "SetProperties", "SetLabels", "RemoveProperty",
     "RemoveLabels"}

\* A clause HandleWriteClause does not handle.
OtherClauses == {Clause("Unwind", <<>>, NoSymbol, <<PrimitiveLiteral>>, FALSE)}

\* The named expressions `value AS name` that can follow `used` symbols:
\* a literal, a variable in scope, an aggregation of all rows or of a
\* variable, and a variable combined with an aggregation.  next is the last
\* position used: one for the output symbol and one for the aggregation.
NamedAfter(used, variables) ==
    LET out == Symbol(used + 1, TRUE)
        agg == Symbol(used + 2, FALSE)
        plain == {PrimitiveLiteral} \cup {Identifier(x) : x \in variables}
        aggregating ==
            {Aggregation(agg, <<>>)}
            \cup {Aggregation(agg, <<Identifier(x)>>) : x \in variables}
            \cup {BinaryOperator(Identifier(x),
                                 Aggregation(agg, <<Identifier(y)>>))
                  : x \in variables, y \in variables}
    IN {[e |-> NamedExpression(out, v), next |-> used + 1] : v \in plain}
       \cup {[e |-> NamedExpression(out, v), next |-> used + 2]
             : v \in aggregating}

RECURSIVE NamedLists(_, _)
NamedLists(n, variables) ==
    IF n = 0 THEN {[list |-> <<>>, next |-> positions]}
    ELSE LET shorter == NamedLists(n - 1, variables)
         IN shorter
            \cup {l \in UNION {{[list |-> Append(s.list, x.e), next |-> x.next]
                               : x \in NamedAfter(s.next, variables)}
                              : s \in {t \in shorter : Len(t.list) = n - 1}}
                  : l.next <= MaxSymbols}

Body(named_expressions, all_identifiers, distinct, order_by, skip, limit) ==
    [named_expressions |-> named_expressions,
     all_identifiers |-> all_identifiers, distinct |-> distinct,
     order_by |-> order_by, skip |-> skip, limit |-> limit]

HasAggregation(named_expressions) ==
    \E i \in DOMAIN named_expressions :
        AggregationSymbols(named_expressions[i]) # {}

\* What ORDER BY and WHERE may refer to: the new symbols, and the old ones
\* too unless the body aggregates.
Visible(named_expressions, all_identifiers, variables) ==
    {named_expressions[i].sym : i \in DOMAIN named_expressions}
    \cup (IF all_identifiers \/ ~HasAggregation(named_expressions)
          THEN variables ELSE {})

Optional(expressions) == {nullptr} \cup expressions

\* Return bodies over lists of at most `named` named expressions, with or
\* without '*'.  A rich body has every combination of DISTINCT, ORDER BY,
\* SKIP and LIMIT, a lean one none of them.  '*' needs a variable in scope,
\* a body without '*' a named expression.
Bodies(named, rich) ==
    LET stars == IF scope = {} THEN {FALSE} ELSE BOOLEAN
        switch == IF rich THEN BOOLEAN ELSE {FALSE}
        literal == IF rich THEN Optional({PrimitiveLiteral}) ELSE {nullptr}
        orders(l, star) ==
            IF rich THEN {<<Identifier(x)>> : x \in Visible(l.list, star, scope)}
            ELSE {}
        bodies(l, star) ==
            {Body(l.list, star, distinct, order_by, skip, limit)
             : distinct \in switch, skip \in literal, limit \in literal,
               order_by \in {<<>>} \cup orders(l, star)}
    IN {b \in UNION {UNION {bodies(l, star) : star \in stars}
                     : l \in NamedLists(named, scope)}
        : b.all_identifiers \/ b.named_expressions # <<>>}

ReturnClauses(named, rich) ==
    {BodyClause("Return", b, nullptr) : b \in Bodies(named, rich)}

\* With clauses; the WHERE of a lean one refers to a new symbol.
WithClauses(named, rich) ==
    UNION {{BodyClause("With", b, where)
            : where \in Optional({Identifier(x)
                                  : x \in Visible(b.named_expressions,
                                                  rich /\ b.all_identifiers,
                                                  IF rich THEN scope
                                                  ELSE {})})}
           : b \in Bodies(named, rich)}

\* The orders in which the sets of a return body iterate: bound_symbols is
\* iterated by ExpandUserSymbols only, and the copy of used_symbols is read
\* by Accumulate and Aggregate only.  The build matters only when the
\* condition of a DCHECK is false.
BodyIterations(clause) ==
    LET visited == VisitBody(clause.body, AnyIteration(bound_symbols),
                             clause.where)
        any(S) == {CHOOSE o \in Orders(S) : TRUE}
    IN Iterations(IF clause.body.all_identifiers THEN Orders(bound_symbols)
                  ELSE any(bound_symbols),
                  IF is_write \/ HasAggregation(clause.body.named_expressions)
                  THEN Orders(visited.used_symbols)
                  ELSE any(visited.used_symbols),
                  IF visited.dcheck_failed THEN BOOLEAN ELSE {FALSE})

RECURSIVE AllSymbols(_)
AllSymbols(e) ==
    {e.sym} \cup UNION {AllSymbols(e.args[i]) : i \in DOMAIN e.args}

ClauseSymbols(clause) ==
    PatternSymbols(clause.patterns)
    \cup UNION {AllSymbols(clause.body.named_expressions[i])
                : i \in DOMAIN clause.body.named_expressions}
    \cup UNION {AllSymbols(clause.body.order_by[i])
                : i \in DOMAIN clause.body.order_by}
    \cup AllSymbols(clause.where)

\* The expressions that nest an aggregation in composite expressions, over
\* the variables in scope: every composite expression over literals,
\* variables and aggregations and, when `deep`, those composites inside a
\* binary operator and a function call, beside a literal, a variable or an
\* aggregation.  Two aggregations have two result symbols; the identifier of
\* an ALL is a new variable.  An IF has an aggregation, bare or inside a
\* function call, as its condition, its then or its else expression:
\* nothing in the planner keeps such a body from reaching it.
NestedExpressions(variables, used, deep) ==
    LET q == Identifier(Symbol(used + 4, TRUE))
        plain == {PrimitiveLiteral} \cup {Identifier(x) : x \in variables}
        aggregating(agg) ==
            {Aggregation(agg, <<>>)}
            \cup {Aggregation(agg, <<Identifier(x)>>) : x \in variables}
            \cup {Aggregation(agg, <<PrimitiveLiteral, Identifier(x)>>)
                  : x \in variables}
        first == plain \cup aggregating(Symbol(used + 2, FALSE))
        second == plain \cup aggregating(Symbol(used + 3, FALSE))
        composite ==
            {BinaryOperator(a, b) : a \in first, b \in second}
            \cup {Function(<<a>>) : a \in first}
            \cup {Function(<<a, b>>) : a \in first, b \in second}
            \cup {ListLiteral(<<a, b>>) : a \in first, b \in second}
            \cup {MapLiteral(<<a, b>>) : a \in first, b \in second}
            \cup {ListSlicingOperator(a, nullptr, b)
                  : a \in first, b \in second}
            \cup {ListSlicingOperator(a, b, c)
                  : a \in first, b \in second, c \in {nullptr, PrimitiveLiteral}}
            \cup {All(q, a, w)
                  : a \in first,
                    w \in {q} \cup {BinaryOperator(q, b) : b \in plain}}
            \cup {IfOperator(a, b, PrimitiveLiteral)
                  : a \in plain, b \in plain}
            \cup UNION {{IfOperator(a, PrimitiveLiteral, PrimitiveLiteral),
                         IfOperator(PrimitiveLiteral, a, PrimitiveLiteral),
                         IfOperator(PrimitiveLiteral, PrimitiveLiteral, a)}
                        : a \in (first \ plain)
                                \cup {Function(<<b>>) : b \in first \ plain}}
        beside(c) ==
            IF Symbol(used + 3, FALSE) \in AllSymbols(c) THEN plain
            ELSE second
        nested ==
            UNION {{BinaryOperator(c, a) : a \in beside(c)}
                   \cup {Function(<<a, c>>) : a \in beside(c)}
                   : c \in composite}
    IN {e \in IF deep THEN nested ELSE first \cup composite
        : \A x \in AllSymbols(e) : x.position <= MaxSymbols}

\* The bodies of one named expression that nests, with or without '*'; when
\* it does not nest deep, with an ORDER BY over a visible variable, or over
\* an ALL of one when the named expression has no ALL of its own.
NestedBodies ==
    LET out == Symbol(positions + 1, TRUE)
        q == Identifier(Symbol(positions + 4, TRUE))
        stars == IF scope = {} THEN {FALSE} ELSE BOOLEAN
        quantified(e, x) ==
            IF q.sym \in AllSymbols(e) \/ q.sym.position > MaxSymbols THEN {}
            ELSE {<<All(q, Identifier(x), q)>>}
        orders(e, star) ==
            UNION {{<<Identifier(x)>>} \cup quantified(e, x)
                   : x \in Visible(<<NamedExpression(out, e)>>, star, scope)}
    IN IF out.position > MaxSymbols THEN {}
       ELSE UNION {{Body(<<NamedExpression(out, e)>>, star, FALSE, order_by,
                         nullptr, nullptr)
                    : order_by \in {<<>>} \cup orders(e, star)}
                   : e \in NestedExpressions(scope, positions, FALSE),
                     star \in stars}
            \cup {Body(<<NamedExpression(out, e)>>, star, FALSE, <<>>,
                       nullptr, nullptr)
                  : e \in NestedExpressions(scope, positions, TRUE),
                    star \in stars}

\* The clauses of those bodies; a WITH has no WHERE, or one that ORDER BY
\* could have.
NestedClauses(type) ==
    UNION {{BodyClause(type, [b EXCEPT !.order_by = <<>>], where)
            : where \in IF type = "With" /\ b.order_by # <<>>
                        THEN {nullptr, b.order_by[1]} ELSE {nullptr}}
           \cup {BodyClause(type, b, nullptr)}
           : b \in NestedBodies}

\* The next symbol that has the name of `symbol`.
SameName(symbol) ==
    Symbol(CHOOSE p \in (symbol.position + 1)..(symbol.position + 7)
               : name(Symbol(p, TRUE)) = name(symbol),
           symbol.user_declared)

\* MATCH (a), (b), ... over a symbol table in which two variables have one
\* name: the planner reads the names from the symbol table and nothing in
\* it asks them to differ.
SameNameClauses ==
    LET a == Symbol(1, TRUE)
        variables == {a, SameName(a), Symbol(2, TRUE)}
        nodes == UNION {Orders(v) : v \in {w \in SUBSET variables
                                             : {a, SameName(a)} \subseteq w}}
    IN {Clause("Match",
               PatternsOf([i \in DOMAIN symbols |-> 1], symbols,
                          [i \in DOMAIN symbols |-> FALSE]),
               NoSymbol, <<>>, FALSE)
        : symbols \in nodes}

----------------------------------------------------------------------------
(* The query assembler: it plans the clauses in source order, threading    *)
(* the operator tail, the bound symbols and the write marker.              *)

NoClause == Clause("", <<>>, NoSymbol, <<>>, FALSE)

Call(clause, result) ==
    [clause |-> clause, bound_symbols |-> bound_symbols,
     is_write |-> is_write, input_op |-> Len(plan), fatal |-> result.fatal,
     null |-> result.null,
     filter_calls |-> IF clause.type = "Match" THEN result.filter_calls
                      ELSE <<>>,
     path_calls |-> IF clause.type = "Match" THEN result.path_calls ELSE <<>>]

\* No call yet.
NoCall == [call |-> "", argument |-> <<>>, result |-> <<>>, before |-> <<>>]

\* The planner before the first clause.
InitPlanner ==
    /\ plan = <<>>
    /\ bound_symbols = {}
    /\ is_write = FALSE
    /\ status = "planning"
    /\ positions = 0
    /\ clauses = 0
    /\ scope = {}
    /\ last = [clause |-> NoClause, bound_symbols |-> {}, is_write |-> FALSE,
               input_op |-> 0, fatal |-> FALSE, null |-> FALSE,
               filter_calls |-> <<>>, path_calls |-> <<>>]

\* No constraint, an empty store and a default constructed variant.
InitOthers ==
    /\ constraints_ = <<>>
    /\ storage_ = <<>>
    /\ data_ = [alternative |-> "CoordinatorInstance", instances |-> {},
                main |-> <<>>, coordinators |-> {}]
    /\ returned = NoCall

Init == InitPlanner /\ InitOthers

Planning == status = "planning" /\ clauses < MaxClauses

\* The variables in scope after a clause: a pattern declares the variables
\* of its atoms and its path, a WITH keeps the old ones only with '*'.
ScopeAfter(clause) ==
    CASE clause.type \in {"Match", "Create"} ->
            scope \cup UserSymbols(PatternSymbols(clause.patterns))
      [] clause.type = "With" ->
            {clause.body.named_expressions[i].sym
             : i \in DOMAIN clause.body.named_expressions}
            \cup (IF clause.body.all_identifiers THEN scope ELSE {})
      [] OTHER -> scope

\* The effect of a planner call on the state of the assembler.
Thread(clause, result, write, next_status) ==
    /\ last' = Call(clause, result)
    /\ clauses' = clauses + 1
    /\ positions' = NextPosition(ClauseSymbols(clause)) - 1
    /\ scope' = IF result.fatal \/ result.null THEN scope
                ELSE ScopeAfter(clause)
    /\ UNCHANGED <<constraints_, storage_, data_, returned>>
    /\ IF result.fatal
       THEN status' = "fatal" /\ UNCHANGED <<plan, bound_symbols, is_write>>
       ELSE IF result.null
       THEN UNCHANGED <<plan, bound_symbols, is_write, status>>
       ELSE /\ plan' = result.last_op
            /\ bound_symbols' = result.bound_symbols
            /\ is_write' = write
            /\ status' = next_status

PlanWriteClause(clause) ==
    Thread(clause, HandleWriteClause(clause, plan, bound_symbols), TRUE,
           "planning")

PlanCreate(atoms, patterns, rich, named) ==
    Planning /\ \E clause \in CreateClauses(atoms, patterns, rich, named) :
                    PlanWriteClause(clause)

PlanWrite(types) ==
    Planning /\ \E clause \in WriteClauses(types) : PlanWriteClause(clause)

PlanOther == Planning /\ \E clause \in OtherClauses : PlanWriteClause(clause)

PlanMatch(atoms, patterns, named, predicates) ==
    /\ Planning
    /\ \E clause \in MatchClauses(atoms, patterns, named, predicates) :
         \E order \in Orders(DOMAIN NamedPaths(clause.patterns)) :
            Thread(clause, PlanMatching(clause, plan, bound_symbols, order),
                   is_write, "planning")

PlanWith(named, flags) ==
    /\ Planning
    /\ \E clause \in WithClauses(named, flags) :
         \E iteration \in BodyIterations(clause) :
            Thread(clause,
                   GenWith(clause, plan, is_write, bound_symbols, iteration),
                   FALSE, "planning")

PlanReturn(named, flags) ==
    /\ Planning
    /\ \E clause \in ReturnClauses(named, flags) :
         \E iteration \in BodyIterations(clause) :
            Thread(clause,
                   GenReturn(clause, plan, is_write, bound_symbols, iteration),
                   is_write, "done")

\* A MATCH of variables that share a name.
PlanMatchSameName ==
    /\ Planning
    /\ \E clause \in SameNameClauses :
         \E order \in Orders(DOMAIN NamedPaths(clause.patterns)) :
            Thread(clause, PlanMatching(clause, plan, bound_symbols, order),
                   is_write, "planning")

\* A WITH and a RETURN whose named expression nests.
PlanWithNested ==
    /\ Planning
    /\ \E clause \in NestedClauses("With") :
         \E iteration \in BodyIterations(clause) :
            Thread(clause,
                   GenWith(clause, plan, is_write, bound_symbols, iteration),
                   FALSE, "planning")

PlanReturnNested ==
    /\ Planning
    /\ \E clause \in NestedClauses("Return") :
         \E iteration \in BodyIterations(clause) :
            Thread(clause,
                   GenReturn(clause, plan, is_write, bound_symbols, iteration),
                   is_write, "done")

Next ==
    \/ PlanMatch(1, 1, FALSE, 0)
    \/ PlanCreate(3, 1, FALSE, TRUE)
    \/ PlanWrite({"SetProperty", "SetLabels"})
    \/ PlanOther
    \/ PlanWith(1, FALSE)
    \/ PlanReturn(1, FALSE)

Spec == Init /\ [][Next]_vars

----------------------------------------------------------------------------
(* One clause in full, after a short query: a CREATE of several patterns,  *)
(* every kind of write, and the bodies with DISTINCT, ORDER BY, SKIP,      *)
(* LIMIT and WHERE.                                                        *)

First == clauses = 0

Second == clauses = 1

NextClause ==
    \/ First /\ PlanMatch(1, 1, FALSE, 0)
    \/ First /\ PlanCreate(3, 1, FALSE, TRUE)
    \/ First /\ PlanOther
    \/ Second /\ PlanCreate(MaxAtoms, MaxPatterns, TRUE, TRUE)
    \/ Second /\ PlanWrite(WriteTypes)
    \/ Second /\ PlanWith(MaxNamed, TRUE)
    \/ Second /\ PlanReturn(MaxNamed, TRUE)

SpecClause == Init /\ [][NextClause]_vars

\* A MATCH in full, with named paths and predicates, after a short query.
NextMatch ==
    \/ First /\ PlanMatch(1, 1, FALSE, 0)
    \/ First /\ PlanOther
    \/ Second /\ PlanMatch(MaxAtoms - 2, MaxPatterns, TRUE, MaxFilters)

SpecMatch == Init /\ [][NextMatch]_vars

\* A WITH or a RETURN of nested expressions, after a short query.
NextBody ==
    \/ First /\ PlanMatch(1, 1, FALSE, 0)
    \/ First /\ PlanCreate(1, 1, FALSE, FALSE)
    \/ First /\ PlanOther
    \/ Second /\ PlanWithNested
    \/ Second /\ PlanReturnNested

SpecBody == Init /\ [][NextBody]_vars

\* A RETURN after a CREATE of one pattern whose atoms have any symbols.
NextCreateReturn ==
    \/ First /\ PlanCreate(3, 1, TRUE, FALSE)
    \/ Second /\ PlanReturn(1, FALSE)

SpecCreateReturn == Init /\ [][NextCreateReturn]_vars

\* A WITH or a RETURN after a MATCH of variables that share a name.
NextSameName ==
    \/ First /\ PlanMatchSameName
    \/ Second /\ PlanWith(MaxNamed, TRUE)
    \/ Second /\ PlanReturn(MaxNamed, TRUE)

SpecSameName == Init /\ [][NextSameName]_vars

----------------------------------------------------------------------------
(* Existence constraints (existence_constraints.cpp).  A rule is a record  *)
(* [label, properties] with a nonempty list of properties; two rules are   *)
(* equal when they are the same record.  constraints_ is the vector of the *)
(* rules, indexed from 1; end() is the index Len + 1.                      *)

MaxLabels == 2
MaxRuleProperties == 2

ExistenceRules ==
    {[label |-> l, properties |-> [i \in 1..k |-> i]]
        : l \in 1..MaxLabels, k \in 1..MaxRuleProperties}

\* std::find(constraints.begin(), constraints.end(), rule)
Find(constraints, rule) ==
    IF \E i \in DOMAIN constraints : constraints[i] = rule
    THEN CHOOSE i \in DOMAIN constraints :
            /\ constraints[i] = rule
            /\ \A j \in 1..(i - 1) : constraints[j] # rule
    ELSE Len(constraints) + 1

AddConstraint(constraints, rule) ==
    LET found == Find(constraints, rule) IN
    IF found # Len(constraints) + 1
    THEN [constraints |-> constraints, result |-> FALSE]
    ELSE [constraints |-> Append(constraints, rule), result |-> TRUE]

\* RemoveConstraint without the std::swap: the last rule is popped.
RemoveConstraintPoppingBack(constraints, rule) ==
    LET found == Find(constraints, rule) IN
    IF found # Len(constraints) + 1
    THEN [constraints |-> SubSeq(constraints, 1, Len(constraints) - 1),
          result |-> TRUE]
    ELSE [constraints |-> constraints, result |-> FALSE]

RemoveConstraint(constraints, rule) ==
    LET found == Find(constraints, rule) IN
    IF found # Len(constraints) + 1
    THEN LET swapped == [constraints EXCEPT
                            ![found] = constraints[Len(constraints)],
                            ![Len(constraints)] = constraints[found]]
         IN  [constraints |-> SubSeq(swapped, 1, Len(swapped) - 1),
              result |-> TRUE]
    ELSE [constraints |-> constraints, result |-> FALSE]

Exists(constraints, rule) ==
    LET found == Find(constraints, rule) IN
    found # Len(constraints) + 1

\* A call, its argument, what it returned and the state it was made in.
Called(call, argument, result, before) ==
    [call |-> call, argument |-> argument, result |-> result,
     before |-> before]

CallAddConstraint ==
    \E rule \in ExistenceRules :
        LET r == AddConstraint(constraints_, rule) IN
        /\ constraints_' = r.constraints
        /\ returned' = Called("AddConstraint", rule, r.result, constraints_)
        /\ UNCHANGED <<planner_vars, storage_, data_>>

CallRemoveConstraint ==
    \E rule \in ExistenceRules :
        LET r == RemoveConstraint(constraints_, rule) IN
        /\ constraints_' = r.constraints
        /\ returned' = Called("RemoveConstraint", rule, r.result, constraints_)
        /\ UNCHANGED <<planner_vars, storage_, data_>>

CallExists ==
    \E rule \in ExistenceRules :
        /\ returned' = Called("Exists", rule, Exists(constraints_, rule),
                              constraints_)
        /\ UNCHANGED <<planner_vars, constraints_, storage_, data_>>

NextConstraints ==
    \/ CallAddConstraint
    \/ CallRemoveConstraint
    \/ CallExists

SpecConstraints == Init /\ [][NextConstraints]_vars

----------------------------------------------------------------------------
(* Users and roles (auth/auth.cpp).  A name is [base, upper]: the letters  *)
(* of the name and whether some of them are upper case; base 0 is a name   *)
(* the name regex rejects.  A std::optional is <<>> or <<value>>.  The     *)
(* store maps a key <<prefix, name>> to a value: the serialized user, the  *)
(* serialized role, or for a link the name of the role.                    *)

MaxNames == 3

AuthNames == {[base |-> b, upper |-> u] : b \in 0..MaxNames, u \in BOOLEAN}

\* std::nullopt, a password the default regex rejects, and one it accepts.
Passwords == {<<>>, <<"">>, <<"secret">>}

kUserPrefix == "user:"
kRolePrefix == "role:"
kLinkPrefix == "link:"

ToLowerCase(s) == [s EXCEPT !.upper = FALSE]

\* kvstore::KVStore
Get(storage, key) == IF key \in DOMAIN storage THEN <<storage[key]>> ELSE <<>>

PutMultiple(storage, items) ==
    [key \in DOMAIN storage \cup DOMAIN items |->
        IF key \in DOMAIN items THEN items[key] ELSE storage[key]]

DeleteMultiple(storage, keys) ==
    [key \in DOMAIN storage \ keys |-> storage[key]]

PutAndDeleteMultiple(storage, items, keys) ==
    DeleteMultiple(PutMultiple(storage, items), keys)

\* The keys with a prefix, in the order of the store: upper case letters
\* sort before lower case ones.
KeyLess(a, b) ==
    \/ a[2].base < b[2].base
    \/ a[2].base = b[2].base /\ a[2].upper /\ ~b[2].upper

RECURSIVE InOrder(_)
InOrder(keys) ==
    IF keys = {} THEN <<>>
    ELSE LET first == CHOOSE k \in keys : \A o \in keys \ {k} : KeyLess(k, o)
         IN  <<first>> \o InOrder(keys \ {first})

Iterate(storage, prefix) ==
    InOrder({key \in DOMAIN storage : key[1] = prefix})

\* auth::User and auth::Role
User(username) ==
    [username |-> ToLowerCase(username), password |-> <<>>, role |-> <<>>]

Role(rolename) == [rolename |-> ToLowerCase(rolename)]

SerializeUser(user) == [username |-> user.username, password |-> user.password]

DeserializeUser(data) ==
    [username |-> data.username, password |-> data.password, role |-> <<>>]

SetRole(user, role) == [user EXCEPT !.role = <<role>>]

ClearRole(user) == [user EXCEPT !.role = <<>>]

\* What a call hands back: a value, or an AuthException thrown.
Value(value) == [thrown |-> FALSE, value |-> value]

AuthException == [thrown |-> TRUE, value |-> <<>>]

Outcome(storage, result) == [storage |-> storage, result |-> result]

NameRegexMatch(user_or_role) == user_or_role.base # 0

GetRole(storage, rolename_orig) ==
    LET rolename == ToLowerCase(rolename_orig)
        existing_role == Get(storage, <<kRolePrefix, rolename>>)
    IN  IF existing_role = <<>> THEN <<>> ELSE <<existing_role[1]>>

GetUser(storage, username_orig) ==
    LET username == ToLowerCase(username_orig)
        existing_user == Get(storage, <<kUserPrefix, username>>)
        link == Get(storage, <<kLinkPrefix, username>>)
        user == DeserializeUser(existing_user[1])
        role == GetRole(storage, link[1])
    IN  IF existing_user = <<>> THEN <<>>
        ELSE IF link # <<>> /\ role # <<>> THEN <<SetRole(user, role[1])>>
        ELSE <<user>>

SaveUser(storage, user) ==
    IF user.role # <<>>
    THEN PutMultiple(storage,
            (<<kUserPrefix, user.username>> :> SerializeUser(user))
            @@ (<<kLinkPrefix, user.username>> :> user.role[1].rolename))
    ELSE PutAndDeleteMultiple(storage,
            <<kUserPrefix, user.username>> :> SerializeUser(user),
            {<<kLinkPrefix, user.username>>})

\* The defaults: a missing password is permitted, an empty one is not.
UpdatePassword(user, password) ==
    IF password # <<>> /\ password[1] = ""
    THEN AuthException
    ELSE Value([user EXCEPT !.password = password])

\* AddUser without the look-up of a role of that name.
AddUserOverRole(storage, username, password) ==
    LET existing_user == GetUser(storage, username)
        new_user == UpdatePassword(User(username), password)
    IN  IF ~NameRegexMatch(username) THEN Outcome(storage, AuthException)
        ELSE IF existing_user # <<>> THEN Outcome(storage, Value(<<>>))
        ELSE IF new_user.thrown THEN Outcome(storage, AuthException)
        ELSE Outcome(SaveUser(storage, new_user.value),
                     Value(<<new_user.value>>))

AddUser(storage, username, password) ==
    LET existing_user == GetUser(storage, username)
        existing_role == GetRole(storage, username)
        new_user == UpdatePassword(User(username), password)
    IN  IF ~NameRegexMatch(username) THEN Outcome(storage, AuthException)
        ELSE IF existing_user # <<>> THEN Outcome(storage, Value(<<>>))
        ELSE IF existing_role # <<>> THEN Outcome(storage, Value(<<>>))
        ELSE IF new_user.thrown THEN Outcome(storage, AuthException)
        ELSE Outcome(SaveUser(storage, new_user.value),
                     Value(<<new_user.value>>))

RemoveUser(storage, username_orig) ==
    LET username == ToLowerCase(username_orig)
        keys == {<<kLinkPrefix, username>>, <<kUserPrefix, username>>}
    IN  IF Get(storage, <<kUserPrefix, username>>) = <<>>
        THEN Outcome(storage, Value(FALSE))
        ELSE Outcome(DeleteMultiple(storage, keys), Value(TRUE))

SaveRole(storage, role) ==
    PutMultiple(storage, <<kRolePrefix, role.rolename>> :> role)

AddRole(storage, rolename) ==
    LET existing_role == GetRole(storage, rolename)
        existing_user == GetUser(storage, rolename)
        new_role == Role(rolename)
    IN  IF ~NameRegexMatch(rolename) THEN Outcome(storage, AuthException)
        ELSE IF existing_role # <<>> THEN Outcome(storage, Value(<<>>))
        ELSE IF existing_user # <<>> THEN Outcome(storage, Value(<<>>))
        ELSE Outcome(SaveRole(storage, new_role), Value(<<new_role>>))

\* RemoveRole that deletes the record of the role only.
RemoveRoleKeepingLinks(storage, rolename_orig) ==
    LET rolename == ToLowerCase(rolename_orig)
    IN  IF Get(storage, <<kRolePrefix, rolename>>) = <<>>
        THEN Outcome(storage, Value(FALSE))
        ELSE Outcome(DeleteMultiple(storage, {<<kRolePrefix, rolename>>}),
                     Value(TRUE))

RemoveRole(storage, rolename_orig) ==
    LET rolename == ToLowerCase(rolename_orig)
        links == Iterate(storage, kLinkPrefix)
        keys == {links[i] : i \in {j \in DOMAIN links :
                    ToLowerCase(storage[links[j]]) = rolename}}
                \cup {<<kRolePrefix, rolename>>}
    IN  IF Get(storage, <<kRolePrefix, rolename>>) = <<>>
        THEN Outcome(storage, Value(FALSE))
        ELSE Outcome(DeleteMultiple(storage, keys), Value(TRUE))

\* The users of the links left to visit, in order; a link without a user
\* throws.
RECURSIVE UsersOfLinks(_, _, _)
UsersOfLinks(storage, links, rolename) ==
    IF links = <<>> THEN Value(<<>>)
    ELSE LET username == Head(links)[2]
             second == storage[Head(links)]
             rest == UsersOfLinks(storage, Tail(links), rolename)
             user == GetUser(storage, username)
         IN  IF username # ToLowerCase(username) THEN rest
             ELSE IF second # ToLowerCase(second) THEN rest
             ELSE IF second # rolename THEN rest
             ELSE IF user = <<>> THEN AuthException
             ELSE IF rest.thrown THEN rest
             ELSE Value(<<user[1]>> \o rest.value)

AllUsersForRole(storage, rolename_orig) ==
    UsersOfLinks(storage, Iterate(storage, kLinkPrefix),
                 ToLowerCase(rolename_orig))

\* A caller that gives a user a role, or takes it: GetUser, GetRole,
\* SetRole or ClearRole on the copy, SaveUser.
GrantRole(storage, username, rolename) ==
    LET user == GetUser(storage, username)
        role == GetRole(storage, rolename)
    IN  IF user = <<>> \/ role = <<>> THEN Outcome(storage, Value(FALSE))
        ELSE Outcome(SaveUser(storage, SetRole(user[1], role[1])), Value(TRUE))

RevokeRole(storage, username) ==
    LET user == GetUser(storage, username)
    IN  IF user = <<>> THEN Outcome(storage, Value(FALSE))
        ELSE Outcome(SaveUser(storage, ClearRole(user[1])), Value(TRUE))

\* A call on the Auth object: the store after it and what it returned.
AuthCall(call, argument, outcome) ==
    /\ storage_' = outcome.storage
    /\ returned' = Called(call, argument, outcome.result, storage_)
    /\ UNCHANGED <<planner_vars, constraints_, data_>>

CallAddUser ==
    \E username \in AuthNames, password \in Passwords :
        AuthCall("AddUser", <<username, password>>,
                 AddUser(storage_, username, password))

CallRemoveUser ==
    \E username \in AuthNames :
        AuthCall("RemoveUser", <<username>>, RemoveUser(storage_, username))

CallAddRole ==
    \E rolename \in AuthNames :
        AuthCall("AddRole", <<rolename>>, AddRole(storage_, rolename))

CallRemoveRole ==
    \E rolename \in AuthNames :
        AuthCall("RemoveRole", <<rolename>>, RemoveRole(storage_, rolename))

CallGrantRole ==
    \E username \in AuthNames, rolename \in AuthNames :
        AuthCall("GrantRole", <<username, rolename>>,
                 GrantRole(storage_, username, rolename))

CallRevokeRole ==
    \E username \in AuthNames :
        AuthCall("RevokeRole", <<username>>, RevokeRole(storage_, username))

NextAuth ==
    \/ CallAddUser
    \/ CallRemoveUser
    \/ CallAddRole
    \/ CallRemoveRole
    \/ CallGrantRole
    \/ CallRevokeRole

SpecAuth == Init /\ [][NextAuth]_vars

----------------------------------------------------------------------------
(* The coordinator state (coordination/coordinator_state.cpp).  data_ is   *)
(* the variant: [alternative |-> "CoordinatorInstance"] with the           *)
(* replication instances registered, the one that is main and the          *)
(* coordinators added, or [alternative |-> "CoordinatorMainReplicaData"]   *)
(* with the port of its coordinator server.  A failed MG_ASSERT aborts the *)
(* process in every build: the call does not return and no call follows.   *)

MaxInstances == 3
MaxRaftServers == 2
MaxPorts == 2

InstanceNames == 1..MaxInstances

\* FLAGS_raft_server_id and FLAGS_coordinator_server_port; 0 is not set.
CoordinatorFlags ==
    [raft_server_id : 0..MaxRaftServers, coordinator_server_port : 0..MaxPorts]

CoordinatorInstance ==
    [alternative |-> "CoordinatorInstance", instances |-> {}, main |-> <<>>,
     coordinators |-> {}]

CoordinatorMainReplicaData(port) ==
    [alternative |-> "CoordinatorMainReplicaData", coordinator_server_ |-> port]

holds_alternative(alternative, data) == data.alternative = alternative

\* What a call hands back: a value, or nothing because MG_ASSERT aborted.
Returns(data, value) == [data |-> data, aborted |-> FALSE, value |-> value]

Aborts(data) == [data |-> data, aborted |-> TRUE, value |-> <<>>]

\* CoordinatorInstance
InstanceRegisterReplicationInstance(instance, config) ==
    IF config.instance_name \in instance.instances
    THEN Returns(instance, "NAME_EXISTS")
    ELSE Returns([instance EXCEPT !.instances = @ \cup {config.instance_name}],
                 "SUCCESS")

InstanceSetReplicationInstanceToMain(instance, instance_name) ==
    IF instance_name \notin instance.instances
    THEN Returns(instance, "NO_INSTANCE_WITH_NAME")
    ELSE IF instance.main # <<>>
    THEN Returns(instance, "MAIN_ALREADY_EXISTS")
    ELSE Returns([instance EXCEPT !.main = <<instance_name>>], "SUCCESS")

\* CoordinatorState::CoordinatorState()
CoordinatorState(flags) ==
    IF flags.raft_server_id # 0 /\ flags.coordinator_server_port # 0
    THEN Aborts(CoordinatorInstance)
    ELSE IF flags.coordinator_server_port # 0
    THEN Returns(CoordinatorMainReplicaData(flags.coordinator_server_port), <<>>)
    ELSE Returns(CoordinatorInstance, <<>>)

RegisterReplicationInstance(data, config) ==
    IF ~holds_alternative("CoordinatorInstance", data) THEN Aborts(data)
    ELSE IF holds_alternative("CoordinatorMainReplicaData", data)
    THEN Returns(data, "NOT_COORDINATOR")
    ELSE InstanceRegisterReplicationInstance(data, config)

SetReplicationInstanceToMain(data, instance_name) ==
    IF ~holds_alternative("CoordinatorInstance", data) THEN Aborts(data)
    ELSE IF holds_alternative("CoordinatorMainReplicaData", data)
    THEN Returns(data, "NOT_COORDINATOR")
    ELSE InstanceSetReplicationInstanceToMain(data, instance_name)

ShowInstances(data) ==
    IF ~holds_alternative("CoordinatorInstance", data) THEN Aborts(data)
    ELSE Returns(data, [instances |-> data.instances, main |-> data.main,
                        coordinators |-> data.coordinators])

GetCoordinatorServer(data) ==
    IF ~holds_alternative("CoordinatorMainReplicaData", data) THEN Aborts(data)
    ELSE Returns(data, data.coordinator_server_)

AddCoordinatorInstance(data, raft_server_id) ==
    IF ~holds_alternative("CoordinatorInstance", data) THEN Aborts(data)
    ELSE Returns([data EXCEPT !.coordinators = @ \cup {raft_server_id}], <<>>)

\* The process runs: no MG_ASSERT has failed.
Running == IF returned.call = "" THEN TRUE ELSE ~returned.result.aborted

\* A call on the coordinator state of a running process.
CoordinatorCall(call, argument, outcome) ==
    /\ Running
    /\ data_' = outcome.data
    /\ returned' = Called(call, argument,
                          [aborted |-> outcome.aborted, value |-> outcome.value],
                          data_)
    /\ UNCHANGED <<planner_vars, constraints_, storage_>>

\* The process starts: the flags are read and the state is constructed.
InitCoordinator ==
    /\ InitPlanner
    /\ constraints_ = <<>>
    /\ storage_ = <<>>
    /\ \E flags \in CoordinatorFlags :
          LET outcome == CoordinatorState(flags) IN
          /\ data_ = outcome.data
          /\ returned = IF outcome.aborted
                        THEN Called("CoordinatorState", flags,
                                    [aborted |-> TRUE, value |-> <<>>],
                                    outcome.data)
                        ELSE NoCall

CallRegisterReplicationInstance ==
    \E instance_name \in InstanceNames :
        CoordinatorCall("RegisterReplicationInstance", instance_name,
            RegisterReplicationInstance(data_, [instance_name |-> instance_name]))

CallSetReplicationInstanceToMain ==
    \E instance_name \in InstanceNames :
        CoordinatorCall("SetReplicationInstanceToMain", instance_name,
            SetReplicationInstanceToMain(data_, instance_name))

CallShowInstances ==
    CoordinatorCall("ShowInstances", <<>>, ShowInstances(data_))

CallGetCoordinatorServer ==
    CoordinatorCall("GetCoordinatorServer", <<>>, GetCoordinatorServer(data_))

CallAddCoordinatorInstance ==
    \E raft_server_id \in 1..MaxRaftServers :
        CoordinatorCall("AddCoordinatorInstance", raft_server_id,
            AddCoordinatorInstance(data_, raft_server_id))

NextCoordinator ==
    \/ CallRegisterReplicationInstance
    \/ CallSetReplicationInstanceToMain
    \/ CallShowInstances
    \/ CallGetCoordinatorServer
    \/ CallAddCoordinatorInstance

SpecCoordinator == InitCoordinator /\ [][NextCoordinator]_vars

----------------------------------------------------------------------------
(* Properties.                                                             *)

\* The operators the last clause planned, bottom-up.
Emitted == SubSeq(plan, last.input_op + 1, Len(plan))

EmittedKinds == [i \in DOMAIN Emitted |-> Emitted[i].kind]

BodyPlanned == last.clause.type \in {"With", "Return"}

\* The symbols of the named expressions of a body, as written.
NamedSymbols(body) ==
    {body.named_expressions[i].sym : i \in DOMAIN body.named_expressions}

\* The operators a return body asks for, read off the clause.
BodyConditions ==
    LET body == last.clause.body
    IN [Accumulate |-> last.is_write,
        Aggregate |-> HasAggregation(body.named_expressions),
        Produce |-> TRUE,
        Distinct |-> body.distinct,
        OrderBy |-> body.order_by # <<>>,
        Skip |-> body.skip # nullptr,
        Limit |-> body.limit # nullptr,
        Filter |-> last.clause.where # nullptr]

BodyOrder ==
    <<"Accumulate", "Aggregate", "Produce", "Distinct", "OrderBy", "Skip",
      "Limit", "Filter">>

\* C1: the operators of a return body (RETURN or WITH) are, bottom-up,
\* Accumulate, Aggregate, Produce, Distinct, OrderBy, Skip, Limit, Filter:
\* Produce once, each other one exactly when its condition holds, and no
\* other operator.
C1_BodyOperatorOrder ==
    BodyPlanned =>
        EmittedKinds = SelectSeq(BodyOrder, LAMBDA k : BodyConditions[k])

\* A WITH after a write that aggregates and has DISTINCT, ORDER BY, SKIP,
\* LIMIT and WHERE: all eight operators.
C1_Witness ==
    /\ last.clause.type = "With"
    /\ EmittedKinds = BodyOrder

\* The symbols introduced by the operators 1..i of the plan.
IntroducedUpTo(i) == UNION {plan[j].intro : j \in 1..i}

\* C2: every symbol an operator references (in its expressions, as its
\* input symbol, or as a remembered symbol) is introduced by an operator at
\* or below it.
C2_ReferencesAreBound ==
    \A i \in DOMAIN plan : plan[i].refs \subseteq IntroducedUpTo(i)

\* A finished plan with a CreateExpand from a node of an earlier operator
\* and an Accumulate that remembers symbols.
C2_Witness ==
    /\ status = "done"
    /\ \E i \in DOMAIN plan : plan[i].kind = "CreateExpand"
    /\ \E i \in DOMAIN plan : plan[i].kind = "Accumulate" /\ plan[i].refs # {}

\* The symbols operator j introduces although an operator below it did.
Reintroduced(j) == plan[j].intro \cap IntroducedUpTo(j - 1)

\* C3 as stated: no operator introduces a symbol that an operator below it
\* already introduced, a body with '*' included.
C3_NoSymbolIntroducedTwice ==
    \A j \in DOMAIN plan : Reintroduced(j) = {}

\* C3, amended: only the Produce of a body with '*' introduces symbols
\* again, and those are user declared symbols it projects onto themselves.
C3_OnlyStarReintroduces ==
    \A j \in DOMAIN plan :
        \A symbol \in Reintroduced(j) :
            /\ plan[j].kind = "Produce"
            /\ user_declared(symbol)
            /\ \E i \in DOMAIN plan[j].exprs :
                  plan[j].exprs[i] = NamedExpression(symbol, Identifier(symbol))

\* A plan with a created pattern, a named path and a body with '*' above
\* them.
C3_Witness ==
    /\ \E i \in DOMAIN plan : plan[i].kind = "ConstructNamedPath"
    /\ \E i \in DOMAIN plan : plan[i].kind = "CreateExpand"
    /\ \E j \in DOMAIN plan : plan[j].kind = "Produce" /\ Reintroduced(j) # {}

\* C4: after GenWith the bound symbols are exactly the output symbols of the
\* body: the symbols of its named expressions and, with '*', the user
\* declared symbols that were bound.
C4_WithResetsBoundSymbols ==
    last.clause.type = "With" =>
        bound_symbols =
            NamedSymbols(last.clause.body)
            \cup (IF last.clause.body.all_identifiers
                  THEN UserSymbols(last.bound_symbols) ELSE {})

\* A WITH that keeps a symbol and drops another.
C4_Witness ==
    /\ last.clause.type = "With"
    /\ last.bound_symbols \ bound_symbols # {}
    /\ bound_symbols # {}

BoundBelow(i) ==
    last.bound_symbols
    \cup UNION {plan[j].intro : j \in (last.input_op + 1)..(i - 1)}

Expressions(filters) == [i \in DOMAIN filters |-> filters[i].expression]

\* C6: ExtractFilters removes exactly the filters whose used symbols are all
\* bound and returns their AND-join in stored order; the others stay, in
\* order; the result is null when no filter qualifies.
C6_ExtractFilters ==
    \A n \in DOMAIN last.filter_calls :
        LET call == last.filter_calls[n]
            bound(filter) == filter.used_symbols \subseteq call.bound_symbols
            unbound(filter) == ~bound(filter)
        IN /\ call.filters_left = SelectSeq(call.filters, unbound)
           /\ Conjuncts(call.filter_expr)
                  = Expressions(SelectSeq(call.filters, bound))
           /\ (call.filter_expr = nullptr)
                  <=> (SelectSeq(call.filters, bound) = <<>>)

\* A call that joins two predicates.
C6_Witness ==
    \E n \in DOMAIN last.filter_calls :
        Len(Conjuncts(last.filter_calls[n].filter_expr)) = 2

\* The Filter operators the last clause planned, as positions of the plan.
Filters == {i \in (last.input_op + 1)..Len(plan) : plan[i].kind = "Filter"}

\* The predicates of the Filter at position i.
Predicates(i) == Range(Conjuncts(plan[i].exprs[1]))

\* Every stored predicate is in exactly one Filter.
EachPredicateOnce ==
    /\ \A f \in Range(Expressions(last.clause.filters)) :
          \E i \in Filters : f \in Predicates(i)
    /\ \A i \in Filters :
          /\ Predicates(i) \subseteq Range(Expressions(last.clause.filters))
          /\ Len(Conjuncts(plan[i].exprs[1])) = Cardinality(Predicates(i))
          /\ \A j \in Filters \ {i} : Predicates(i) \cap Predicates(j) = {}

\* A call of GenFilters plans a Filter, right above its input, exactly when
\* a stored filter has all its symbols bound.
FilterOnlyWhenBound ==
    \A n \in DOMAIN last.filter_calls :
        LET call == last.filter_calls[n]
        IN IF \E i \in DOMAIN call.filters :
                  call.filters[i].used_symbols \subseteq call.bound_symbols
           THEN call.last_op = call.input_op + 1
                /\ plan[call.last_op].kind = "Filter"
           ELSE call.last_op = call.input_op

\* GenFilters has been called after every operator that binds a symbol:
\* the plan is one of MATCH clauses, and no call of GenNamedPaths has
\* constructed two paths at once.
GenFiltersAfterEveryBinding ==
    /\ \A i \in DOMAIN plan :
          plan[i].kind \in {"ScanAll", "Expand", "ConstructNamedPath", "Filter"}
    /\ \A n \in DOMAIN last.path_calls :
          last.path_calls[n].last_op <= last.path_calls[n].input_op + 1

\* The Filter at position i is directly above the operator that first makes
\* the symbols of the predicate bound.
AboveFirstBinding(i, predicate) ==
    /\ ExprSymbols(predicate) \subseteq BoundBelow(i)
    /\ ~(ExprSymbols(predicate) \subseteq BoundBelow(i - 1))

\* C7 as stated: with GenFilters called after every binding operator, every
\* predicate is in exactly one Filter, directly above the operator that
\* first makes all its symbols bound, and no Filter is planned where
\* no stored filter became bound.
C7_FilterAboveFirstBinding ==
    (last.clause.type = "Match" /\ GenFiltersAfterEveryBinding) =>
        /\ EachPredicateOnce
        /\ FilterOnlyWhenBound
        /\ \A i \in Filters :
              \A predicate \in Predicates(i) : AboveFirstBinding(i, predicate)

\* C7, amended: every predicate is in exactly one Filter, planned by the
\* first call of GenFilters at which all its symbols are bound, directly
\* above the input of that call; with GenFilters called after every binding
\* operator that is directly above the operator that first makes its
\* symbols bound, unless they were all bound when the predicate was stored.
C7_FilterAtFirstCall ==
    last.clause.type = "Match" =>
        /\ EachPredicateOnce
        /\ FilterOnlyWhenBound
        /\ \A n \in DOMAIN last.filter_calls :
              LET call == last.filter_calls[n]
              IN call.last_op > call.input_op =>
                    \A predicate \in Predicates(call.last_op) :
                        /\ ExprSymbols(predicate) \subseteq call.bound_symbols
                        /\ n > 1 =>
                              ~(ExprSymbols(predicate) \subseteq
                                    last.filter_calls[n - 1].bound_symbols)
        /\ GenFiltersAfterEveryBinding =>
              \A i \in Filters :
                  \A predicate \in Predicates(i) :
                      ~(ExprSymbols(predicate) \subseteq last.bound_symbols)
                          => AboveFirstBinding(i, predicate)

\* A MATCH with a predicate over a variable of an earlier clause and a
\* predicate over a new one, in two Filters.
C7_Witness ==
    /\ last.clause.type = "Match"
    /\ GenFiltersAfterEveryBinding
    /\ \E i, j \in Filters :
          /\ i # j
          /\ \E predicate \in Predicates(i) :
                /\ ExprSymbols(predicate) # {}
                /\ ExprSymbols(predicate) \subseteq last.bound_symbols
          /\ \E predicate \in Predicates(j) :
                ~(ExprSymbols(predicate) \subseteq last.bound_symbols)

\* The pending paths of a call of GenNamedPaths whose atoms are all bound.
Ready(call) ==
    {path \in DOMAIN call.named_paths :
        Range(call.named_paths[path]) \subseteq call.bound_symbols}

\* C8: GenNamedPaths plans a ConstructNamedPath for exactly the pending
\* paths whose atoms are all bound, removes exactly those and leaves the
\* others as they are; so a path is constructed only above the operators
\* that bind its atoms, and at most once.
C8_GenNamedPaths ==
    last.clause.type = "Match" =>
        /\ \A n \in DOMAIN last.path_calls :
              LET call == last.path_calls[n]
                  ops == SubSeq(plan, call.input_op + 1, call.last_op)
              IN /\ Len(ops) = Cardinality(Ready(call))
                 /\ \A path \in Ready(call) :
                       \E i \in DOMAIN ops :
                           /\ ops[i].kind = "ConstructNamedPath"
                           /\ ops[i].syms
                                  = <<path>> \o call.named_paths[path]
                 /\ DOMAIN call.named_paths_left
                        = DOMAIN call.named_paths \ Ready(call)
                 /\ \A path \in DOMAIN call.named_paths_left :
                       call.named_paths_left[path] = call.named_paths[path]
        /\ \A i \in DOMAIN Emitted :
              Emitted[i].kind = "ConstructNamedPath" =>
                  /\ Range(Tail(Emitted[i].syms))
                         \subseteq BoundBelow(last.input_op + i)
                  /\ \A j \in DOMAIN Emitted \ {i} :
                        Emitted[j].kind = "ConstructNamedPath"
                            => Emitted[j].syms[1] # Emitted[i].syms[1]

\* A call with two pending paths that constructs one and leaves the other.
C8_Witness ==
    \E n \in DOMAIN last.path_calls :
        LET call == last.path_calls[n]
        IN /\ Ready(call) # {}
           /\ DOMAIN call.named_paths \ Ready(call) # {}
           /\ call.last_op = call.input_op + 1

\* The atoms of the patterns of the last clause in source order, each with
\* whether it is the first of its pattern.
Atoms ==
    LET patterns == last.clause.patterns
        upto[i \in 0..Len(patterns)] ==
            IF i = 0 THEN <<>>
            ELSE upto[i - 1]
                 \o [j \in DOMAIN patterns[i].atoms |->
                        [symbol |-> patterns[i].atoms[j].symbol,
                         type |-> patterns[i].atoms[j].type,
                         first |-> j = 1]]
    IN upto[Len(patterns)]

\* The symbols bound before atom k: those bound before the clause and those
\* of the atoms before it.
BoundBefore(k) ==
    last.bound_symbols \cup {Atoms[m].symbol : m \in 1..(k - 1)}

\* What CREATE has to plan for atom k: a CreateNode for a first node that
\* was not bound, a CreateExpand for a following node, existing when it was
\* bound before its edge.
Creation(k) ==
    LET atom == Atoms[k]
    IN IF atom.type # "node" THEN <<>>
       ELSE IF atom.first
       THEN IF atom.symbol \in BoundBefore(k) THEN <<>>
            ELSE <<[kind |-> "CreateNode", node |-> atom.symbol,
                    node_existing |-> FALSE]>>
       ELSE <<[kind |-> "CreateExpand", node |-> atom.symbol,
               node_existing |-> atom.symbol \in BoundBefore(k - 1)]>>

Creations ==
    LET upto[k \in 0..Len(Atoms)] ==
            IF k = 0 THEN <<>> ELSE upto[k - 1] \o Creation(k)
    IN upto[Len(Atoms)]

\* The CreateNode and CreateExpand operators the last clause planned.
Created ==
    LET creates(op) == op.kind \in {"CreateNode", "CreateExpand"}
        ops == SelectSeq(Emitted, creates)
    IN [i \in DOMAIN ops |->
           [kind |-> ops[i].kind, node |-> ops[i].syms[1],
            node_existing |-> ops[i].flag]]

CreatePlanned == last.clause.type = "Create" /\ ~last.fatal

\* C9: CREATE plans a CreateNode for the first node of a pattern exactly
\* when its symbol was not bound, a CreateExpand for every following node
\* with node_existing exactly when its symbol was bound, and the symbols of
\* the nodes are bound afterwards.
C9_CreateOnlyUnboundNodes ==
    CreatePlanned =>
        /\ Created = Creations
        /\ \A k \in DOMAIN Atoms :
              Atoms[k].type = "node" => Atoms[k].symbol \in bound_symbols

\* A CREATE whose patterns start at bound nodes and expand to a bound one.
C9_Witness ==
    /\ CreatePlanned
    /\ \A i \in DOMAIN Created : Created[i].kind = "CreateExpand"
    /\ \E i \in DOMAIN Created : Created[i].node_existing
    /\ \E i \in DOMAIN Created : ~Created[i].node_existing

\* An edge of the last clause has a symbol that was bound before it.
EdgeRedeclared ==
    \E k \in DOMAIN Atoms :
        Atoms[k].type = "edge" /\ Atoms[k].symbol \in BoundBefore(k)

\* C10: a CREATE with an edge whose symbol is already bound fails fatally:
\* no operator is planned and the planning does not go on.
C10_EdgeRedeclarationIsFatal ==
    (last.clause.type = "Create" /\ EdgeRedeclared) =>
        /\ last.fatal
        /\ status = "fatal"
        /\ Emitted = <<>>

\* A CREATE with an edge named like a variable of an earlier clause.
C10_Witness ==
    /\ last.clause.type = "Create"
    /\ status = "fatal"
    /\ \E k \in DOMAIN Atoms :
          Atoms[k].type = "edge" /\ Atoms[k].symbol \in last.bound_symbols

\* C11 (as claimed): the redeclaration of an edge by CREATE does not abort
\* the process; it is reported to the caller, who goes on.
C11_RedeclarationDoesNotAbort ==
    (last.clause.type = "Create" /\ EdgeRedeclared) => status # "fatal"

\* The number of atoms of the patterns before pattern i of the last clause.
PatternOffset(i) ==
    SeqSum([j \in 1..(i - 1) |-> Len(last.clause.patterns[j].atoms)])

\* What CREATE has to plan for pattern i: the creations of its atoms and,
\* for a user declared identifier, the named path on top of them.
PatternCreation(i) ==
    LET pattern == last.clause.patterns[i]
        creations[j \in 0..Len(pattern.atoms)] ==
            IF j = 0 THEN <<>>
            ELSE creations[j - 1] \o Creation(PatternOffset(i) + j)
    IN creations[Len(pattern.atoms)]
       \o (IF user_declared(pattern.identifier)
           THEN <<[kind |-> "ConstructNamedPath",
                   node |-> pattern.identifier, node_existing |-> FALSE]>>
           ELSE <<>>)

PatternCreations ==
    LET patterns == last.clause.patterns
        upto[i \in 0..Len(patterns)] ==
            IF i = 0 THEN <<>> ELSE upto[i - 1] \o PatternCreation(i)
    IN upto[Len(patterns)]

\* The named paths the last clause planned: the symbol lists of its
\* ConstructNamedPath operators, the path symbol first.
PathsPlanned ==
    LET paths(op) == op.kind = "ConstructNamedPath"
        ops == SelectSeq(Emitted, paths)
    IN [i \in DOMAIN ops |-> ops[i].syms]

\* The named paths of the patterns of the last clause, in source order.
PathsDeclared ==
    LET named(pattern) == user_declared(pattern.identifier)
        patterns == SelectSeq(last.clause.patterns, named)
    IN [i \in DOMAIN patterns |->
           <<patterns[i].identifier>>
           \o [j \in DOMAIN patterns[i].atoms |-> patterns[i].atoms[j].symbol]]

\* C12: CREATE plans a ConstructNamedPath on top of the operators of a
\* pattern, below those of the next pattern, exactly when the identifier of
\* the pattern is user declared, and its elements are the symbols of all the
\* atoms of the pattern, nodes and edges, in pattern order.
C12_CreateNamedPath ==
    CreatePlanned =>
        /\ [i \in DOMAIN Emitted |->
               [kind |-> Emitted[i].kind, node |-> Emitted[i].syms[1],
                node_existing |-> Emitted[i].flag]] = PatternCreations
        /\ PathsPlanned = PathsDeclared

\* A CREATE of a named pattern with an edge, followed by a pattern without
\* a name.
C12_Witness ==
    /\ CreatePlanned
    /\ Len(last.clause.patterns) = 2
    /\ user_declared(last.clause.patterns[1].identifier)
    /\ Len(last.clause.patterns[1].atoms) = 3
    /\ ~user_declared(last.clause.patterns[2].identifier)
    /\ Len(PathsPlanned) = 1
    /\ Emitted[Len(Emitted)].kind # "ConstructNamedPath"

\* Whether an aggregation is inside an expression.
ContainsAggregation(e) == AggregationSymbols(e) # {}

\* The Aggregate operators the last clause planned.
Aggregates == {i \in DOMAIN Emitted : Emitted[i].kind = "Aggregate"}

\* The expressions inside an expression, itself included.
RECURSIVE SubExpressions(_)
SubExpressions(e) ==
    {e} \cup UNION {SubExpressions(e.args[i]) : i \in DOMAIN e.args}

SubExpressionsOf(expressions) ==
    UNION {SubExpressions(expressions[i]) : i \in DOMAIN expressions}

\* C13: no expression of the group_by list of an Aggregate operator contains
\* an aggregation, whatever the nesting of binary operators, list slicing,
\* function calls, list and map literals in the named expressions.
C13_GroupByHasNoAggregation ==
    \A i \in DOMAIN plan :
        plan[i].kind = "Aggregate" =>
            \A j \in DOMAIN plan[i].exprs :
                ~ContainsAggregation(plan[i].exprs[j])

\* An Aggregate that groups by a list slicing taken out of a named
\* expression that adds it to an aggregation.
C13_Witness ==
    /\ BodyPlanned
    /\ \E i \in Aggregates :
          \E j \in DOMAIN Emitted[i].exprs :
              /\ Emitted[i].exprs[j].k = "ListSlicing"
              /\ Emitted[i].exprs[j]
                    \in SubExpressionsOf(last.clause.body.named_expressions)

\* The children of a composite expression the classifier visits.
Children(e) == {e.args[i] : i \in DOMAIN e.args} \ {nullptr}

Composite(e) ==
    e.k \in {"Binary", "ListSlicing", "Function", "ListLiteral", "MapLiteral",
             "All"}

\* C14 (as claimed): in every composite expression of the named expressions
\* with a child that contains an aggregation and a child that does not, every
\* child that does not is an expression of group_by.
C14_EveryPlainChildIsGrouped ==
    BodyPlanned =>
        \A i \in Aggregates :
            \A e \in SubExpressionsOf(last.clause.body.named_expressions) :
                (/\ Composite(e)
                 /\ \E a \in Children(e) : ContainsAggregation(a)
                 /\ \E a \in Children(e) : ~ContainsAggregation(a))
                => \A a \in Children(e) :
                      ~ContainsAggregation(a) => a \in Range(Emitted[i].exprs)

\* The body of the last clause has '*'.
StarPlanned == BodyPlanned /\ last.clause.body.all_identifiers

\* The user declared symbols that were bound before the last clause.
UserBound == UserSymbols(last.bound_symbols)

\* The Produce operator of the last clause, and its named expressions that
\* come from '*': those before the explicit ones.
Produced == Emitted[CHOOSE i \in DOMAIN Emitted : Emitted[i].kind = "Produce"]

Explicit == last.clause.body.named_expressions

Expanded == SubSeq(Produced.exprs, 1, Len(Produced.exprs) - Len(Explicit))

\* C15: with '*', the named expressions and the output symbols start with
\* one named expression of an identifier per user declared bound symbol and
\* none for another symbol, in ascending order of the names, followed by
\* the explicit named expressions; the expanded identifiers are grouped by.
C15_StarExpansion ==
    StarPlanned =>
        /\ Produced.exprs = Expanded \o Explicit
        /\ Len(Expanded) = Cardinality(UserBound)
        /\ {Expanded[i].sym : i \in DOMAIN Expanded} = UserBound
        /\ \A i \in DOMAIN Expanded :
              Expanded[i] = NamedExpression(Expanded[i].sym,
                                           Identifier(Expanded[i].sym))
        /\ \A i, j \in DOMAIN Expanded :
              i < j => name(Expanded[i].sym) < name(Expanded[j].sym)
        /\ \A i \in DOMAIN Emitted :
              Emitted[i].kind \in {"Distinct", "OrderBy"} =>
                  Emitted[i].syms = [j \in DOMAIN Produced.exprs |->
                                        Produced.exprs[j].sym]
        /\ \A i \in Aggregates :
              \A x \in UserBound : Identifier(x) \in Range(Emitted[i].exprs)

\* A body with '*' and an explicit aggregation, DISTINCT, over two variables
\* and a symbol that is not user declared, where the order of the names is
\* not the order of the positions.
C15_Witness ==
    /\ StarPlanned
    /\ Explicit # <<>>
    /\ Aggregates # {}
    /\ \E i \in DOMAIN Emitted : Emitted[i].kind = "Distinct"
    /\ Len(Expanded) >= 2
    /\ Expanded[1].sym.position > Expanded[2].sym.position
    /\ \E x \in last.bound_symbols : ~user_declared(x)

\* C16: the set of the symbols produced by the expansion of '*' is the set
\* of the user declared symbols that were bound: a body of '*' alone
\* produces exactly those, and explicit named expressions add their own.
C16_StarProducesUserBound ==
    StarPlanned =>
        Produced.intro = UserBound \cup {Explicit[i].sym : i \in DOMAIN Explicit}

\* A body of '*' alone over two variables and a symbol that is not user
\* declared.
C16_Witness ==
    /\ StarPlanned
    /\ Explicit = <<>>
    /\ Cardinality(UserBound) >= 2
    /\ Produced.intro = UserBound
    /\ UserBound # last.bound_symbols

\* The operators planned before the last clause.
Input == SubSeq(plan, 1, last.input_op)

\* The plan after the last clause when the bound symbols, the used symbols
\* and the pending named paths iterate in the given orders.
Replanned(iteration, order) ==
    CASE last.clause.type = "Return" ->
            GenReturn(last.clause, Input, last.is_write, last.bound_symbols,
                      iteration).last_op
      [] last.clause.type = "With" ->
            GenWith(last.clause, Input, last.is_write, last.bound_symbols,
                    iteration).last_op
      [] last.clause.type = "Match" ->
            PlanMatching(last.clause, Input, last.bound_symbols, order).last_op
      [] OTHER -> plan

\* Every order in which the sets of the last clause may iterate.
IterationOrders ==
    Iterations(Orders(last.bound_symbols),
               Orders(UsedSymbols(last.clause.body, last.bound_symbols,
                                  last.clause.where)), {FALSE})

\* C17 (as claimed): the plan of a clause is the same whatever the order in
\* which the bound symbols, the used symbols and the pending named paths
\* iterate: the group_by list, the symbols remembered by Accumulate and
\* Aggregate and the ConstructNamedPath operators come in one order.
C17_PlanIsDeterministic ==
    (~last.fatal /\ ~last.null) =>
        \A iteration \in IterationOrders :
            \A order \in Orders(DOMAIN NamedPaths(last.clause.patterns)) :
                Replanned(iteration, order) = plan

\* The ReturnBodyContext of the last clause (its sets, which do not depend
\* on the iteration orders).
Context ==
    VisitBody(last.clause.body, AnyIteration(last.bound_symbols),
              last.clause.where)

\* The expressions of the body of the last clause: named expressions,
\* ORDER BY and WHERE.
BodyExpressions ==
    last.clause.body.named_expressions \o last.clause.body.order_by
    \o (IF last.clause.where = nullptr THEN <<>> ELSE <<last.clause.where>>)

\* The symbols bound by the ALL quantifiers of the body.
QuantifierSymbols ==
    {e.args[1].sym : e \in {x \in SubExpressionsOf(BodyExpressions)
                                : x.k = "All"}}

\* The symbols of the identifiers of the body.
IdentifierSymbols ==
    {e.sym : e \in {x \in SubExpressionsOf(BodyExpressions)
                       : x.k = "Identifier"}}

ExplicitSymbols == {Explicit[i].sym : i \in DOMAIN Explicit}

\* C18 (as claimed): no used symbol is an output symbol of the body and none
\* is the identifier of an ALL, with and without '*'.
C18_UsedSymbolsAreNotOutput ==
    BodyPlanned =>
        /\ Context.used_symbols \cap Range(Context.output_symbols) = {}
        /\ Context.used_symbols \cap QuantifierSymbols = {}

\* C18 (amended): the used symbols are symbols of identifiers of the body or
\* expanded from '*'; none is the output symbol of an explicit named
\* expression and none is the identifier of an ALL; without '*' no used
\* symbol is an output symbol, and with '*' every user declared bound symbol
\* is both a used symbol and an output symbol.
C18_UsedSymbolsAreOld ==
    BodyPlanned =>
        /\ Context.used_symbols \subseteq IdentifierSymbols \cup UserBound
        /\ Context.used_symbols \cap ExplicitSymbols = {}
        /\ Context.used_symbols \cap QuantifierSymbols = {}
        /\ Range(Context.output_symbols) \ ExplicitSymbols
             = (IF last.clause.body.all_identifiers THEN UserBound ELSE {})
        /\ last.clause.body.all_identifiers =>
              UserBound \subseteq Context.used_symbols

\* A WITH * whose named expression has an ALL over a bound variable and
\* whose WHERE reads the new symbol.
C18_Witness ==
    /\ StarPlanned
    /\ UserBound # {}
    /\ \E e \in SubExpressionsOf(Explicit) :
          e.k = "All" /\ e.args[2].k = "Identifier"
    /\ last.clause.where # nullptr
    /\ ExprSymbols(last.clause.where) \cap ExplicitSymbols # {}
    /\ Context.used_symbols = UserBound

\* The calls ReducePattern makes on pattern i of the last clause.
Calls(i) == ReducePattern(last.clause.patterns[i], TraceLambdas)

\* C19: on a pattern of k edges ReducePattern calls base once, on the first
\* node, then collect k times, call i on the result of the call before it
\* and on the atoms (node i-1, edge i, node i) in pattern order, and returns
\* the result of the last call; the one call on a single node is base.
C19_ReducePatternCalls ==
    \A p \in DOMAIN last.clause.patterns :
        LET atoms == last.clause.patterns[p].atoms
            k == (Len(atoms) - 1) \div 2
        IN /\ Len(Calls(p)) = k + 1
           /\ Calls(p)[1] = [call |-> "base", acc |-> <<>>,
                             atoms |-> <<atoms[1]>>]
           /\ \A i \in 1..k :
                 Calls(p)[i + 1] =
                     [call |-> "collect", acc |-> SubSeq(Calls(p), 1, i),
                      atoms |-> <<atoms[2 * i - 1], atoms[2 * i],
                                  atoms[2 * i + 1]>>]

\* A clause with a pattern of two edges, whose second collect receives the
\* result of the first; the query began with a pattern of a single node.
C19_Witness ==
    /\ clauses = 2
    /\ plan[1].kind \in {"ScanAll", "CreateNode"}
    /\ \E p \in DOMAIN last.clause.patterns :
          /\ Len(last.clause.patterns[p].atoms) = 5
          /\ Len(Calls(p)) = 3
          /\ Calls(p)[3].acc = SubSeq(Calls(p), 1, 2)

\* The query CREATE (a)-[e:R]->(b) RETURN a: the CREATE has planned a
\* CreateNode of a and a CreateExpand of b along e from a, all three new,
\* and the RETURN has the one named expression of the identifier a.
CreateThenReturn ==
    /\ last.clause.type = "Return"
    /\ Len(Input) = 2
    /\ Input[1].kind = "CreateNode"
    /\ Input[2].kind = "CreateExpand"
    /\ ~Input[2].flag
    /\ Input[2].syms[3] = Input[1].syms[1]
    /\ user_declared(Input[2].syms[2])
    /\ last.bound_symbols = Range(Input[2].syms)
    /\ ~last.clause.body.all_identifiers
    /\ Len(Explicit) = 1
    /\ Explicit[1].args[1] = Identifier(Input[1].syms[1])

\* The plan of that query, but for the symbols of its Accumulate.
CreateThenReturnPlan ==
    /\ Len(plan) = 4
    /\ plan[3].kind = "Accumulate"
    /\ ~plan[3].flag
    /\ plan[4].kind = "Produce"
    /\ plan[4].exprs = Explicit

\* C20 (as claimed): the plan of CREATE (a)-[e:R]->(b) RETURN a is Produce[a]
\* over Accumulate over CreateExpand over CreateNode, the Accumulate not
\* advancing the command and remembering the symbols a, e and b.
C20_AccumulateRemembersCreated ==
    CreateThenReturn =>
        /\ CreateThenReturnPlan
        /\ Range(plan[3].syms) = Range(plan[2].syms)

\* C20 (amended): the same plan, the Accumulate remembering the symbols the
\* body uses: a alone.
C20_AccumulateRemembersUsed ==
    CreateThenReturn =>
        /\ CreateThenReturnPlan
        /\ plan[3].syms = <<plan[1].syms[1]>>

C20_Witness ==
    /\ CreateThenReturn
    /\ status = "done"
    /\ Cardinality(last.bound_symbols) = 3
    /\ plan[3].syms = <<plan[1].syms[1]>>

\* The last clause is a RETURN or WITH whose only named expression is an
\* aggregation without an argument (count of all rows), without '*'.
CountAllPlanned ==
    /\ BodyPlanned
    /\ ~last.clause.body.all_identifiers
    /\ Len(last.clause.body.named_expressions) = 1
    /\ last.clause.body.named_expressions[1].args[1].k = "Aggregation"
    /\ last.clause.body.named_expressions[1].args[1].args = <<>>

\* The Aggregate and the Produce the last clause planned.
EmittedOf(kind) == SelectSeq(Emitted, LAMBDA op : op.kind = kind)

\* What the body of count(*) AS c plans, but for the remembered symbols: one
\* Aggregate with the one aggregation element, whose result symbol is that
\* of the aggregation, and no group_by; the Produce above it outputs c.
CountAllShape ==
    LET named_expr == last.clause.body.named_expressions[1]
    IN /\ Len(EmittedOf("Aggregate")) = 1
       /\ EmittedOf("Aggregate")[1].aggregations = <<named_expr.args[1]>>
       /\ EmittedOf("Aggregate")[1].intro = {named_expr.args[1].sym}
       /\ EmittedOf("Aggregate")[1].exprs = <<>>
       /\ Len(EmittedOf("Produce")) = 1
       /\ EmittedOf("Produce")[1].syms = <<named_expr.sym>>
       /\ \E i \in DOMAIN Emitted :
             /\ Emitted[i].kind = "Aggregate"
             /\ i + 1 \in DOMAIN Emitted
             /\ Emitted[i + 1].kind = "Produce"

\* C21 as stated: for a return body whose only named expression is an
\* aggregation without an argument, the Aggregate has that one aggregation
\* element, an empty group_by and remembers the bound symbols of the input;
\* the Produce above it outputs the named symbol.
C21_CountAllRemembersBound ==
    CountAllPlanned =>
        /\ CountAllShape
        /\ Range(EmittedOf("Aggregate")[1].syms) = last.bound_symbols

\* C21, amended: the Aggregate remembers the used symbols of the body, and
\* count(*) uses none, whatever is bound.
C21_CountAllRemembersNothing ==
    CountAllPlanned =>
        /\ CountAllShape
        /\ EmittedOf("Aggregate")[1].syms = <<>>

\* MATCH (n) RETURN count(*) AS c
C21_Witness ==
    /\ CountAllPlanned
    /\ last.clause.type = "Return"
    /\ ~last.is_write
    /\ \E n \in last.bound_symbols :
          /\ last.bound_symbols = {n}
          /\ user_declared(n)
          /\ plan[1].kind = "ScanAll" /\ plan[1].intro = {n}
    /\ EmittedKinds = <<"Aggregate", "Produce">>
    /\ Len(plan) = 3

\* The step plans `clause` by handing it to HandleWriteClause.
WriteClauseHandled == last'.clause.type \in WriteTypes

\* The operator the step put on top of the plan.
Top == plan'[Len(plan')]

\* C22: for DELETE, SetProperty, SetProperties, SetLabels, RemoveProperty
\* and RemoveLabels, HandleWriteClause puts exactly one operator of the kind
\* of the clause directly on top of the input tail; the mode of a
\* SetProperties is UPDATE exactly when update_ is set; for a clause it does
\* not handle it returns nullptr and emits nothing.
C22_WriteClauseEmitsOneOperator ==
    [][/\ WriteClauseHandled =>
             /\ ~last'.null
             /\ plan' = Append(plan, Top)
             /\ Top.kind = last'.clause.type
             /\ last'.clause.type = "SetProperties" =>
                    Top.flag = last'.clause.flag
       /\ last'.clause \in OtherClauses =>
             /\ last'.null
             /\ plan' = plan]_vars

\* A SetProperties that updates (SET n += ...), planned on top of a plan.
C22_Witness ==
    /\ last.clause.type = "SetProperties"
    /\ last.clause.flag
    /\ last.input_op > 0
    /\ Len(plan) = last.input_op + 1
    /\ plan[Len(plan)].kind = "SetProperties"
    /\ plan[Len(plan)].flag

\* Whether an aggregation is anywhere inside an IF of the expression.
RECURSIVE AggregatesInIf(_)
AggregatesInIf(e) ==
    \/ e.k = "If" /\ ContainsAggregation(e)
    \/ \E i \in DOMAIN e.args : AggregatesInIf(e.args[i])

\* The last clause is a RETURN or WITH with an aggregation inside an IF.
AggregateInIfPlanned ==
    /\ BodyPlanned
    /\ \E i \in DOMAIN last.clause.body.named_expressions :
          AggregatesInIf(last.clause.body.named_expressions[i])

\* C23 (as claimed): a return body with an aggregation inside an IF, in its
\* condition, its then or its else expression, is rejected: planning it
\* never yields a plan.
C23_AggregateInIfIsRejected ==
    AggregateInIfPlanned => last.fatal /\ status = "fatal"

\* The operators planned since the last WITH: those above the last Produce.
SinceLastWith ==
    {i \in DOMAIN plan : \A j \in i..Len(plan) : plan[j].kind # "Produce"}

\* C24 (as claimed): the path symbol of every ConstructNamedPath planned
\* since the last WITH, by GenNamedPaths or by GenCreateForPattern, is in
\* the bound symbols, so that a following RETURN * or WITH * expands it.
C24_PathSymbolsAreBound ==
    \A i \in SinceLastWith :
        plan[i].kind = "ConstructNamedPath" =>
            plan[i].intro \subseteq bound_symbols

\* Whether output_symbols and named_expressions of a ReturnBodyContext are
\* parallel: of one length, output_symbols[i] the symbol of
\* named_expressions[i].
Parallel(c) ==
    /\ Len(c.output_symbols) = Len(c.named_expressions)
    /\ \A i \in DOMAIN c.output_symbols :
          c.output_symbols[i] = c.named_expressions[i].sym

OtherThanCreateHandled ==
    last.clause.type \in WriteTypes \/ last.clause \in OtherClauses

\* C26: HandleWriteClause leaves the bound symbols as they were for every
\* clause but CREATE, handled or not; a CREATE adds exactly the symbols of
\* the nodes and edges of its patterns and removes none.
C26_WriteClauseBoundSymbols ==
    /\ OtherThanCreateHandled => bound_symbols = last.bound_symbols
    /\ (CreatePlanned /\ ~last.fatal) =>
           bound_symbols =
               last.bound_symbols \cup AtomSymbolsOf(last.clause.patterns)

\* A CREATE of a named pattern that reuses a bound node and adds symbols.
C26_Witness ==
    /\ CreatePlanned
    /\ ~last.fatal
    /\ last.bound_symbols \cap AtomSymbolsOf(last.clause.patterns) # {}
    /\ AtomSymbolsOf(last.clause.patterns) \ last.bound_symbols # {}
    /\ \E i \in DOMAIN last.clause.patterns :
          /\ user_declared(last.clause.patterns[i].identifier)
          /\ last.clause.patterns[i].identifier \notin bound_symbols

(***************************************************************************)
(* C27: the existence constraints are a set of rules.  The list never      *)
(* holds a rule twice; AddConstraint(r) returns true exactly when r was    *)
(* absent and r exists afterwards; RemoveConstraint(r) returns true        *)
(* exactly when r was present and r does not exist afterwards; a call      *)
(* that returns false leaves the list as it was; and no call changes       *)
(* whether a rule other than r is in the list.                             *)
(***************************************************************************)
AddOrRemoveCalled == returned.call \in {"AddConstraint", "RemoveConstraint"}

C27_ConstraintsAreASet ==
    /\ \A i, j \in DOMAIN constraints_ :
            constraints_[i] = constraints_[j] => i = j
    /\ returned.call = "AddConstraint" =>
            /\ returned.result = (returned.argument \notin Range(returned.before))
            /\ Exists(constraints_, returned.argument)
    /\ returned.call = "RemoveConstraint" =>
            /\ returned.result = (returned.argument \in Range(returned.before))
            /\ ~Exists(constraints_, returned.argument)
    /\ returned.call = "Exists" =>
            returned.result = (returned.argument \in Range(constraints_))
    /\ AddOrRemoveCalled =>
            /\ returned.result = FALSE => constraints_ = returned.before
            /\ Range(constraints_) \ {returned.argument}
                    = Range(returned.before) \ {returned.argument}

\* A rule was removed from the middle of a list of three.
C27_Witness ==
    /\ returned.call = "RemoveConstraint"
    /\ returned.result = TRUE
    /\ Len(returned.before) = 3
    /\ returned.before[2] = returned.argument
    /\ Len(constraints_) = 2

(***************************************************************************)
(* C28: no name is a user and a role at once.  In every state reached by   *)
(* calls of AddUser, AddRole, RemoveUser and RemoveRole (and of the        *)
(* callers that link a user to a role), no two keys of a user and of a     *)
(* role have names that are equal in lower case; AddUser of a name that    *)
(* is a user or a role, and AddRole of a name that is a role or a user,    *)
(* return nullopt and leave the store as it was.                           *)
(***************************************************************************)
UserNames(storage) == {key[2] : key \in {k \in DOMAIN storage : k[1] = kUserPrefix}}

RoleNames(storage) == {key[2] : key \in {k \in DOMAIN storage : k[1] = kRolePrefix}}

LowerCased(names) == {ToLowerCase(n) : n \in names}

AddCalled == returned.call \in {"AddUser", "AddRole"}

Taken(storage, n) ==
    ToLowerCase(n) \in LowerCased(UserNames(storage) \cup RoleNames(storage))

C28_NoNameIsUserAndRole ==
    /\ LowerCased(UserNames(storage_)) \cap LowerCased(RoleNames(storage_)) = {}
    /\ AddCalled /\ Taken(returned.before, returned.argument[1])
            /\ NameRegexMatch(returned.argument[1]) =>
            /\ returned.result = Value(<<>>)
            /\ storage_ = returned.before

\* AddRole of the name of a user, spelled in upper case, was turned down.
C28_Witness ==
    /\ returned.call = "AddRole"
    /\ returned.argument[1].upper
    /\ ToLowerCase(returned.argument[1]) \in UserNames(returned.before)
    /\ RoleNames(storage_) # {}
    /\ returned.result = Value(<<>>)

(***************************************************************************)
(* C29: deleting a role removes it from all linked users.  After           *)
(* RemoveRole(r) returned true the record of the role and every link with  *)
(* the value r are gone, GetUser of every user that was linked to r        *)
(* returns the user without a role, AllUsersForRole(r) is empty, and the   *)
(* records of the users, the other roles and the links to other roles are  *)
(* as before.  RemoveRole of a role that does not exist returns false and  *)
(* leaves the store as it was.                                             *)
(***************************************************************************)
LinkedTo(storage, rolename) ==
    {key \in DOMAIN storage : key[1] = kLinkPrefix /\ storage[key] = rolename}

Removed == ToLowerCase(returned.argument[1])

RoleRemoved == returned.call = "RemoveRole" /\ returned.result = Value(TRUE)

RoleNotRemoved == returned.call = "RemoveRole" /\ returned.result # Value(TRUE)

Kept == DOMAIN returned.before
            \ (LinkedTo(returned.before, Removed) \cup {<<kRolePrefix, Removed>>})

C29_RemoveRoleUnlinksUsers ==
    /\ RoleRemoved =>
        /\ <<kRolePrefix, Removed>> \in DOMAIN returned.before
        /\ <<kRolePrefix, Removed>> \notin DOMAIN storage_
        /\ LinkedTo(storage_, Removed) = {}
        /\ \A link \in LinkedTo(returned.before, Removed) :
              /\ GetUser(returned.before, link[2]) # <<>>
              /\ GetUser(returned.before, link[2])[1].role = <<Role(Removed)>>
              /\ GetUser(storage_, link[2])
                    = <<ClearRole(GetUser(returned.before, link[2])[1])>>
        /\ AllUsersForRole(storage_, returned.argument[1]) = Value(<<>>)
        /\ DOMAIN storage_ = Kept
        /\ \A key \in Kept : storage_[key] = returned.before[key]
    /\ RoleNotRemoved =>
        /\ returned.result = Value(FALSE)
        /\ <<kRolePrefix, Removed>> \notin DOMAIN returned.before
        /\ storage_ = returned.before

\* A role spelled in upper case was removed while two users were linked
\* to it.
C29_Witness ==
    /\ RoleRemoved
    /\ returned.argument[1].upper
    /\ \E a, b \in LinkedTo(returned.before, Removed) : a # b
    /\ Len(AllUsersForRole(returned.before, Removed).value) = 2

(***************************************************************************)
(* C30: on a state that is not a coordinator (data_ holds                  *)
(* CoordinatorMainReplicaData), RegisterReplicationInstance and            *)
(* SetReplicationInstanceToMain return NOT_COORDINATOR to the caller: the  *)
(* call returns and that is its value.                                     *)
(***************************************************************************)
CalledOnNonCoordinator ==
    /\ returned.call \in {"RegisterReplicationInstance",
                          "SetReplicationInstanceToMain"}
    /\ holds_alternative("CoordinatorMainReplicaData", returned.before)

C30_NonCoordinatorReturnsStatus ==
    CalledOnNonCoordinator =>
        /\ ~returned.result.aborted
        /\ returned.result.value = "NOT_COORDINATOR"

====
